---- MODULE Spec2Model ----
(***************************************************************************)
(* ZAFESYS Suite backend: the installation lifecycle and timer            *)
(* (crud/installation.py, api/routes/installations.py,                     *)
(* api/routes/tech_app.py) and the stock movement ledger                   *)
(* (api/inventory.py), as state machines over the database rows the        *)
(* handlers read and commit.                                               *)
(***************************************************************************)
EXTENDS Integers, Sequences, FiniteSets, TLC

(***************************************************************************)
(* Bounds and inputs                                                       *)
(***************************************************************************)
\* number of clock changes observed in one behaviour
MaxTicks == 2
\* number of ledger rows written in one behaviour
MaxLedger == 2
\* largest magnitude of a requested quantity / stock level
MaxQty == 5
\* rows of the installations table and of the distributor_sales table
MaxInstallations == 2
MaxSales == 1
\* webhook deliveries answered with a lead, and rows of the leads table
MaxDeliveries == 4
MaxLeads == 2
\* largest magnitude of Installation.amount_paid
MaxPaid == 14
\* largest Product.stock a distributor sale or its deletion may leave
MaxStock == 8

\* wall-clock changes, in seconds, between two requests; the negative step
\* is the clock of the host being set back (datetime.now is the wall clock)
ClockSteps == {-30, 90, 2220}

\* delta.total_seconds() / 60
SecondsPerMinute == 60

\* Optional[...] columns: None is the empty tuple, a value v is <<v>>
None == <<>>
Some(v) == <<v>>

(***************************************************************************)
(* models/installation.py                                                  *)
(***************************************************************************)
PENDIENTE == "pendiente"
PROGRAMADA == "programada"
EN_CAMINO == "en_camino"
EN_PROGRESO == "en_progreso"
COMPLETADA == "completada"
CANCELADA == "cancelada"
InstallationStatus == {PENDIENTE, PROGRAMADA, EN_CAMINO, EN_PROGRESO, COMPLETADA, CANCELADA}

\* models/installation.py: PaymentStatus
PaymentStatus == [PENDIENTE |-> "pendiente", PARCIAL |-> "parcial", PAGADO |-> "pagado"]
\* models/installation.py: PaymentMethod
PaymentMethod == {"efectivo", "transferencia", "tarjeta", "nequi", "daviplata"}

TimerStartedByType == {"admin", "technician"}
TIMER_STARTED_BY_TECHNICIAN == "technician"

\* ids a request may name; only InstallationIds exist
InstallationIds == {1}
RequestIds == {1, 2}
\* the rows of the warehouses table (BOD1, BOD2, BOD3)
WarehouseIds == {1, 2, 3}
\* the request handlers that can run at the same time, each with the
\* database session get_db gave it: the threads that run the sync endpoints
\* and, for the async webhook handler, the server processes
Workers == {1, 2}
\* the technician the installation is assigned to, and the ids a request may claim
AssignedTechnician == 1
TechnicianIds == {1, 2}

VARIABLES
    now,            \* the wall clock, in seconds
    ticks,          \* clock changes so far (bounds the behaviour)
    installations,  \* installations table: id -> row
    stock,          \* products table: id -> Product.stock
    ledger,         \* inventory_movements table, in insertion order
    response,       \* the response to the last request
    sales,          \* distributor_sales table, in insertion order
    leads,          \* leads table: id (position) -> row
    processed,      \* history: per conversation id, the webhook deliveries answered
                    \* with 200 and the leads created for it
    payload,        \* the webhook payload under analysis
    analysis,       \* the dict analyze_conversation returned for payload
    lead_status,    \* the status determine_lead_status gave the new lead
    warehouse_stock,\* warehouse_stock table: warehouse_id -> quantity of the product
    sessions        \* per worker thread, the request whose handler has read
                    \* but not yet committed (None when the worker is idle)

\* the tables and the scratch state the installation and inventory handlers
\* never write
leadTables == <<leads, processed>>
analyzerState == <<payload, analysis, lead_status>>
\* the warehouse table and the requests in flight
requestState == <<warehouse_stock, sessions>>

vars == <<now, ticks, installations, stock, ledger, response, sales, leadTables,
          analyzerState, requestState>>

\* a freshly created installation row (column defaults of the model)
Installation(technician) ==
    [status |-> PENDIENTE,
     technician_id |-> technician,
     timer_started_at |-> None,
     timer_ended_at |-> None,
     timer_started_by |-> None,
     installation_duration_minutes |-> None,
     completed_at |-> None,
     quantity |-> 1,
     total_price |-> 10,
     payment_status |-> PaymentStatus.PENDIENTE,
     payment_method |-> None,
     amount_paid |-> 0]

\* variant of IntMinutes that rounds a started minute up
IntMinutes_RoundUp(seconds) ==
    (seconds + SecondsPerMinute - 1) \div SecondsPerMinute

\* int(x / 60) of Python: truncation toward zero
IntMinutes(seconds) ==
    IF seconds >= 0 THEN seconds \div SecondsPerMinute
                    ELSE -((-seconds) \div SecondsPerMinute)

(***************************************************************************)
(* crud/installation.py                                                    *)
(***************************************************************************)
CRUDInstallation_update_status(db_obj, status) ==
    [db_obj EXCEPT !.status = status,
                   !.completed_at = IF status = COMPLETADA THEN Some(now) ELSE @]

CRUDInstallation_complete(db_obj) ==
    [db_obj EXCEPT !.status = COMPLETADA, !.completed_at = Some(now)]

\* variant of start_timer that leaves a stale timer_ended_at in place
CRUDInstallation_start_timer_KeepsEnd(db_obj, started_by) ==
    IF db_obj.timer_started_at = None \/ db_obj.timer_ended_at /= None
    THEN [db_obj EXCEPT
            !.timer_started_at = Some(now),
            !.timer_started_by = Some(started_by),
            !.installation_duration_minutes = None,
            !.status = IF @ \notin {EN_PROGRESO, COMPLETADA} THEN EN_PROGRESO ELSE @]
    ELSE db_obj

\* variant of start_timer that leaves a stale duration in place
CRUDInstallation_start_timer_KeepsDuration(db_obj, started_by) ==
    IF db_obj.timer_started_at = None \/ db_obj.timer_ended_at /= None
    THEN [db_obj EXCEPT
            !.timer_started_at = Some(now),
            !.timer_ended_at = None,
            !.timer_started_by = Some(started_by),
            !.status = IF @ \notin {EN_PROGRESO, COMPLETADA} THEN EN_PROGRESO ELSE @]
    ELSE db_obj

CRUDInstallation_start_timer(db_obj, started_by) ==
    IF db_obj.timer_started_at = None \/ db_obj.timer_ended_at /= None
    THEN [db_obj EXCEPT
            !.timer_started_at = Some(now),
            !.timer_ended_at = None,
            !.timer_started_by = Some(started_by),
            !.installation_duration_minutes = None,
            !.status = IF @ \notin {EN_PROGRESO, COMPLETADA} THEN EN_PROGRESO ELSE @]
    ELSE db_obj

\* variant of stop_timer that also stamps timer_started_at with the stop time
CRUDInstallation_stop_timer_RestampsStart(db_obj) ==
    IF db_obj.timer_started_at /= None /\ db_obj.timer_ended_at = None
    THEN [db_obj EXCEPT
            !.timer_started_at = Some(now),
            !.timer_ended_at = Some(now),
            !.installation_duration_minutes =
                Some(IntMinutes(now - db_obj.timer_started_at[1]))]
    ELSE db_obj

CRUDInstallation_stop_timer(db_obj) ==
    IF db_obj.timer_started_at /= None /\ db_obj.timer_ended_at = None
    THEN [db_obj EXCEPT
            !.timer_ended_at = Some(now),
            !.installation_duration_minutes =
                Some(IntMinutes(now - db_obj.timer_started_at[1]))]
    ELSE db_obj

\* variant of get_timer_status whose is_running ignores timer_ended_at
CRUDInstallation_get_timer_status_IgnoresEnd(id, db_obj) ==
    LET is_running == db_obj.timer_started_at /= None
    IN  [installation_id |-> id,
         timer_started_at |-> db_obj.timer_started_at,
         timer_ended_at |-> db_obj.timer_ended_at,
         timer_started_by |-> db_obj.timer_started_by,
         installation_duration_minutes |-> db_obj.installation_duration_minutes,
         is_running |-> is_running,
         elapsed_minutes |-> IF is_running
                             THEN Some(IntMinutes(now - db_obj.timer_started_at[1]))
                             ELSE None]

CRUDInstallation_get_timer_status(id, db_obj) ==
    LET is_running == db_obj.timer_started_at /= None /\ db_obj.timer_ended_at = None
    IN  [installation_id |-> id,
         timer_started_at |-> db_obj.timer_started_at,
         timer_ended_at |-> db_obj.timer_ended_at,
         timer_started_by |-> db_obj.timer_started_by,
         installation_duration_minutes |-> db_obj.installation_duration_minutes,
         is_running |-> is_running,
         elapsed_minutes |-> IF is_running
                             THEN Some(IntMinutes(now - db_obj.timer_started_at[1]))
                             ELSE None]

(***************************************************************************)
(* models/lead.py                                                          *)
(***************************************************************************)
NUEVO == "nuevo"
EN_CONVERSACION == "en_conversacion"
POTENCIAL == "potencial"

WEBSITE == "website"
ANA_VOICE == "ana_voice"

\* A str is a sequence of tokens: words (letters and digits) and separators
\* (punctuation, "\n").  Two adjacent words are one space apart; a separator
\* is written with its own spacing.  The empty str is <<>>, and an optional
\* str is None or Some(text).
EmptyStr == <<>>

\* a conversation id: its first token holds the first eight characters
ConversationIds ==
    {Some(<<"conv_001", "a">>), Some(<<"conv_001", "b">>),
     Some(<<"conv_002", "a">>), Some(<<"conv_002", "b">>),
     Some(<<"conv_003", "a">>), Some(<<"conv_003", "b">>), None}

\* a row of the leads table (the columns the handlers below read or write)
Lead(name, phone, email, address, status, source, notes, product_interest, elevenlabs_conversation_id, conversation_transcript) ==
    [name |-> name,
     phone |-> phone,
     email |-> email,
     address |-> address,
     status |-> status,
     source |-> source,
     notes |-> notes,
     product_interest |-> product_interest,
     elevenlabs_conversation_id |-> elevenlabs_conversation_id,
     conversation_transcript |-> conversation_transcript]

\* the lead the seeded installation belongs to, entered by hand


(***************************************************************************)
(* Responses                                                               *)
(***************************************************************************)
\* what the client of the last request received: the handler that returned
\* (op), the row the request named, the status code, the detail of an error
\* and the body of a success
Reply(op, id, code, body) ==
    [op |-> op, id |-> id, code |-> code, detail |-> "", body |-> body]

\* the response to raise HTTPException(status_code=code, detail=detail)
HTTPException(id, code, detail) ==
    [op |-> "HTTPException", id |-> id, code |-> code, detail |-> detail, body |-> None]

\* an exception no handler catches is answered by global_exception_handler
\* with 500 and "Internal server error: ..."
InternalServerError(id) ==
    [op |-> "global_exception_handler", id |-> id, code |-> 500,
     detail |-> "AttributeError", body |-> None]

\* raise HTTPException(...) in an installation endpoint: nothing is committed
Raise(id, code, detail) ==
    /\ response' = HTTPException(id, code, detail)
    /\ UNCHANGED <<installations>>

\* TechTimerResponse(... timer_started_by=timer_status["timer_started_by"].value
\*                        if timer_status["timer_started_by"] else None ...):
\* the column is String(20), so a non-null value is a str and .value raises
\* AttributeError, which the framework answers with 500
TechTimerResponse(op, id, timer_status) ==
    IF timer_status.timer_started_by /= None
    THEN InternalServerError(id)
    ELSE Reply(op, id, 200, Some(timer_status))

\* the tables after start-up and seeding
InitDatabase ==
    /\ now = 0
    /\ ticks = 0
    /\ installations = [i \in InstallationIds |-> Installation(Some(AssignedTechnician))]
    /\ stock = [p \in {1} |-> 3]
    /\ ledger = <<>>
    /\ response = Reply("none", 0, 0, None)
    /\ sales = <<>>
    /\ leads = <<Lead(<<"Maria">>, <<"+573001234567">>, None, None, NUEVO, WEBSITE,
                       None, None, None, None)>>
    /\ processed = [c \in ConversationIds |-> [delivered |-> 0, created |-> 0]]
    /\ warehouse_stock = <<>>
    /\ sessions = [w \in Workers |-> None]

Init ==
    /\ InitDatabase
    /\ payload = None
    /\ analysis = None
    /\ lead_status = None

\* the wall clock changes between two requests
Tick ==
    /\ ticks < MaxTicks
    /\ \E d \in ClockSteps :
        /\ now + d >= 0
        /\ now' = now + d
    /\ ticks' = ticks + 1
    /\ UNCHANGED <<installations, stock, ledger, response, sales, leadTables,
                   analyzerState, requestState>>

Frame == UNCHANGED <<now, ticks, stock, ledger, sales, leadTables, analyzerState,
                requestState>>

\* crud.installation.get(db, id=...) found a row
Found(id) == id \in DOMAIN installations

\* db.add(db_obj); db.commit()
Commit(id, db_obj) == installations' = [installations EXCEPT ![id] = db_obj]

(***************************************************************************)
(* api/routes/installations.py: timer endpoints (admin and public app)     *)
(***************************************************************************)
StartTimerRoute(op, id, started_by) ==
    /\ IF ~Found(id) THEN Raise(id, 404, "Installation not found")
       ELSE LET installation == CRUDInstallation_start_timer(installations[id], started_by)
            IN  /\ Commit(id, installation)
                /\ response' = Reply(op, id, 200,
                                     Some(CRUDInstallation_get_timer_status(id, installation)))
    /\ Frame

\* variant of the stop endpoints without the "already stopped" check
StopTimerRoute_NoStoppedCheck(op, id) ==
    /\ IF ~Found(id) THEN Raise(id, 404, "Installation not found")
       ELSE IF installations[id].timer_started_at = None
            THEN Raise(id, 400, "Timer has not been started")
       ELSE LET installation == CRUDInstallation_stop_timer(installations[id])
            IN  /\ Commit(id, installation)
                /\ response' = Reply(op, id, 200,
                                     Some(CRUDInstallation_get_timer_status(id, installation)))
    /\ Frame

StopTimerRoute(op, id) ==
    /\ IF ~Found(id) THEN Raise(id, 404, "Installation not found")
       ELSE IF installations[id].timer_started_at = None
            THEN Raise(id, 400, "Timer has not been started")
       ELSE IF installations[id].timer_ended_at /= None
            THEN Raise(id, 400, "Timer has already been stopped")
       ELSE LET installation == CRUDInstallation_stop_timer(installations[id])
            IN  /\ Commit(id, installation)
                /\ response' = Reply(op, id, 200,
                                     Some(CRUDInstallation_get_timer_status(id, installation)))
    /\ Frame

GetTimerRoute(op, id) ==
    /\ IF ~Found(id) THEN Raise(id, 404, "Installation not found")
       ELSE /\ response' = Reply(op, id, 200,
                                 Some(CRUDInstallation_get_timer_status(id, installations[id])))
            /\ UNCHANGED installations
    /\ Frame

start_installation_timer ==
    \E id \in RequestIds, started_by \in TimerStartedByType :
        StartTimerRoute("start_installation_timer", id, started_by)

stop_installation_timer ==
    \E id \in RequestIds : StopTimerRoute("stop_installation_timer", id)

get_installation_timer ==
    \E id \in RequestIds : GetTimerRoute("get_installation_timer", id)

start_timer_for_app ==
    \E id \in RequestIds, started_by \in TimerStartedByType :
        StartTimerRoute("start_timer_for_app", id, started_by)

stop_timer_for_app ==
    \E id \in RequestIds : StopTimerRoute("stop_timer_for_app", id)

get_timer_for_app ==
    \E id \in RequestIds : GetTimerRoute("get_timer_for_app", id)

(***************************************************************************)
(* api/routes/installations.py: status and completion                      *)
(***************************************************************************)
\* LeadStatus (models/lead.py) has no member INSTALADO: evaluating
\* LeadStatus.INSTALADO raises AttributeError after the installation row
\* has been committed, and the request is answered with 500
UpdateStatusRoute(op, id, status) ==
    /\ IF ~Found(id) THEN Raise(id, 404, "Installation not found")
       ELSE LET installation == CRUDInstallation_update_status(installations[id], status)
            IN  /\ Commit(id, installation)
                /\ response' = IF status = COMPLETADA
                               THEN InternalServerError(id)
                               ELSE Reply(op, id, 200, Some(installation))
    /\ Frame

update_installation_status ==
    \E id \in RequestIds, status \in InstallationStatus :
        UpdateStatusRoute("update_installation_status", id, status)

update_status_for_app ==
    \E id \in RequestIds, status \in InstallationStatus :
        UpdateStatusRoute("update_status_for_app", id, status)

complete_installation ==
    \E id \in RequestIds :
        /\ IF ~Found(id) THEN Raise(id, 404, "Installation not found")
           ELSE /\ Commit(id, CRUDInstallation_complete(installations[id]))
                /\ response' = InternalServerError(id)
        /\ Frame

(***************************************************************************)
(* api/routes/tech_app.py                                                  *)
(***************************************************************************)

\* the checks every technician endpoint starts with: the response of the
\* check that fails, None when they pass
TechGuard(id, technician_id) ==
    IF ~Found(id) THEN Some(HTTPException(id, 404, "Instalacion no encontrada"))
    ELSE IF installations[id].technician_id /= Some(technician_id)
         THEN Some(HTTPException(id, 403, "No autorizado"))
    ELSE None

\* the request is answered by the check that failed: nothing is committed
TechRaise(id, technician_id) ==
    /\ response' = TechGuard(id, technician_id)[1]
    /\ UNCHANGED <<installations>>

TechUpdateInstallationStatus(id, technician_id, status) ==
        LET op == "tech_update_installation_status" IN
        /\ IF TechGuard(id, technician_id) /= None
           THEN TechRaise(id, technician_id)
           ELSE IF status \notin {EN_CAMINO, EN_PROGRESO, COMPLETADA} THEN Raise(id, 400, "Estado invalido")
           ELSE /\ Commit(id, [installations[id] EXCEPT
                                 !.status = status,
                                 !.completed_at = IF status = COMPLETADA
                                                  THEN Some(now) ELSE @])
                /\ response' = Reply(op, id, 200, None)
        /\ Frame

tech_update_installation_status ==
    \E id \in RequestIds, technician_id \in TechnicianIds,
       status \in InstallationStatus :
        TechUpdateInstallationStatus(id, technician_id, status)

TechStartTimer(id, technician_id) ==
        LET op == "tech_start_timer" IN
        /\ IF TechGuard(id, technician_id) /= None
           THEN TechRaise(id, technician_id)
           ELSE IF /\ installations[id].timer_started_at /= None
                   /\ installations[id].timer_ended_at = None
           THEN \* timer already running, return current status
                /\ response' = TechTimerResponse(op, id,
                                   CRUDInstallation_get_timer_status(id, installations[id]))
                /\ UNCHANGED installations
           ELSE LET installation == CRUDInstallation_start_timer(installations[id],
                                        TIMER_STARTED_BY_TECHNICIAN)
                IN  /\ Commit(id, installation)
                    /\ response' = TechTimerResponse(op, id,
                                       CRUDInstallation_get_timer_status(id, installation))
        /\ Frame

tech_start_timer ==
    \E id \in RequestIds, technician_id \in TechnicianIds :
        TechStartTimer(id, technician_id)

TechStopTimer(id, technician_id) ==
        LET op == "tech_stop_timer" IN
        /\ IF TechGuard(id, technician_id) /= None
           THEN TechRaise(id, technician_id)
           ELSE IF installations[id].timer_started_at = None
                THEN Raise(id, 400, "El timer no ha sido iniciado")
           ELSE IF installations[id].timer_ended_at /= None
                THEN Raise(id, 400, "El timer ya fue detenido")
           ELSE LET installation == CRUDInstallation_stop_timer(installations[id])
                IN  /\ Commit(id, installation)
                    /\ response' = TechTimerResponse(op, id,
                                       CRUDInstallation_get_timer_status(id, installation))
        /\ Frame

tech_stop_timer ==
    \E id \in RequestIds, technician_id \in TechnicianIds :
        TechStopTimer(id, technician_id)

TechGetTimerStatus(id, technician_id) ==
        LET op == "tech_get_timer_status" IN
        /\ IF TechGuard(id, technician_id) /= None
           THEN TechRaise(id, technician_id)
           ELSE /\ response' = TechTimerResponse(op, id,
                                   CRUDInstallation_get_timer_status(id, installations[id]))
                /\ UNCHANGED installations
        /\ Frame

tech_get_timer_status ==
    \E id \in RequestIds, technician_id \in TechnicianIds :
        TechGetTimerStatus(id, technician_id)

\* variant of the technician's complete_installation that leaves a running
\* timer running
TechCompleteInstallation_NoStop(id, technician_id) ==
        LET op == "tech_complete_installation" IN
        /\ IF TechGuard(id, technician_id) /= None
           THEN TechRaise(id, technician_id)
           ELSE /\ Commit(id, [installations[id] EXCEPT !.status = COMPLETADA,
                                                        !.completed_at = Some(now)])
                /\ response' = Reply(op, id, 200, None)
        /\ Frame

TechCompleteInstallation(id, technician_id) ==
        LET op == "tech_complete_installation" IN
        /\ IF TechGuard(id, technician_id) /= None
           THEN TechRaise(id, technician_id)
           ELSE LET installation ==
                        \* if timer is running, stop it first
                        IF /\ installations[id].timer_started_at /= None
                           /\ installations[id].timer_ended_at = None
                        THEN CRUDInstallation_stop_timer(installations[id])
                        ELSE installations[id]
                IN  /\ Commit(id, [installation EXCEPT !.status = COMPLETADA,
                                                      !.completed_at = Some(now)])
                    /\ response' = Reply(op, id, 200, None)
        /\ Frame

tech_complete_installation ==
    \E id \in RequestIds, technician_id \in TechnicianIds :
        TechCompleteInstallation(id, technician_id)

Next ==
    \/ Tick
    \/ start_installation_timer
    \/ stop_installation_timer
    \/ get_installation_timer
    \/ start_timer_for_app
    \/ stop_timer_for_app
    \/ get_timer_for_app
    \/ update_installation_status
    \/ update_status_for_app
    \/ complete_installation
    \/ tech_update_installation_status
    \/ tech_start_timer
    \/ tech_stop_timer
    \/ tech_get_timer_status
    \/ tech_complete_installation

Spec == Init /\ [][Next]_vars

(***************************************************************************)
(* api/inventory.py: the stock movement ledger                             *)
(***************************************************************************)
ENTRADA == "entrada"
SALIDA == "salida"
AJUSTE == "ajuste"

\* product ids a request may name; only DOMAIN stock exist
ProductRequestIds == {1, 2}
\* InventoryMovementCreate.quantity and StockAdjustmentRequest.new_stock are
\* plain int fields: any sign is accepted
Quantities == (-MaxQty)..MaxQty

abs(n) == IF n < 0 THEN -n ELSE n

InventoryMovement(product_id, movement_type, quantity, stock_before, stock_after, reference_type) ==
    [product_id |-> product_id,
     movement_type |-> movement_type,
     quantity |-> quantity,
     stock_before |-> stock_before,
     stock_after |-> stock_after,
     reference_type |-> reference_type]

\* new_stock of create_inventory_movement
MovementNewStock(movement_type, quantity, stock_before) ==
    IF movement_type = ENTRADA THEN stock_before + abs(quantity)
    ELSE IF movement_type = SALIDA THEN stock_before - abs(quantity)
    ELSE quantity

\* the quantity column create_inventory_movement writes
MovementStoredQuantity(movement_type, quantity) ==
    IF movement_type = ENTRADA THEN quantity ELSE -abs(quantity)

\* variant of the stock check that lets the stock go one below zero
InsufficientStock_OffByOne(movement_type, new_stock) ==
    movement_type = SALIDA /\ new_stock < -1

\* if new_stock < 0: raise HTTPException(status_code=400, ...) in the salida branch
InsufficientStock(movement_type, new_stock) ==
    movement_type = SALIDA /\ new_stock < 0

InventoryFrame == UNCHANGED <<now, ticks, installations, sales, leadTables, analyzerState,
                requestState>>

\* variant of CreateInventoryMovement that overwrites the latest ledger row
\* instead of inserting a new one
CreateInventoryMovement_OverwritesLastRow(product_id, movement_type, quantity) ==
    /\ Len(ledger) < MaxLedger
    /\ LET op == "create_inventory_movement" IN
        IF product_id \notin DOMAIN stock
        THEN /\ response' = HTTPException(product_id, 404, "Producto no encontrado")
             /\ UNCHANGED <<stock, ledger>>
        ELSE LET stock_before == stock[product_id]
                 new_stock == MovementNewStock(movement_type, quantity, stock_before)
                 db_movement == InventoryMovement(product_id, movement_type,
                                    MovementStoredQuantity(movement_type, quantity),
                                    stock_before, new_stock, "manual")
             IN  IF InsufficientStock(movement_type, new_stock)
                 THEN /\ response' = HTTPException(product_id, 400, "Stock insuficiente")
                      /\ UNCHANGED <<stock, ledger>>
                 ELSE /\ stock' = [stock EXCEPT ![product_id] = new_stock]
                      /\ ledger' = IF ledger = <<>> THEN <<db_movement>>
                                   ELSE [ledger EXCEPT ![Len(ledger)] = db_movement]
                      /\ response' = Reply(op, product_id, 200, Some(db_movement))
    /\ InventoryFrame

CreateInventoryMovement(product_id, movement_type, quantity) ==
    /\ Len(ledger) < MaxLedger
    /\ LET op == "create_inventory_movement" IN
        IF product_id \notin DOMAIN stock
        THEN /\ response' = HTTPException(product_id, 404, "Producto no encontrado")
             /\ UNCHANGED <<stock, ledger>>
        ELSE LET stock_before == stock[product_id]
                 new_stock == MovementNewStock(movement_type, quantity, stock_before)
                 db_movement == InventoryMovement(product_id, movement_type,
                                    MovementStoredQuantity(movement_type, quantity),
                                    stock_before, new_stock, "manual")
             IN  IF InsufficientStock(movement_type, new_stock)
                 THEN /\ response' = HTTPException(product_id, 400, "Stock insuficiente")
                      /\ UNCHANGED <<stock, ledger>>
                 ELSE /\ stock' = [stock EXCEPT ![product_id] = new_stock]
                      /\ ledger' = Append(ledger, db_movement)
                      /\ response' = Reply(op, product_id, 200, Some(db_movement))
    /\ InventoryFrame

create_inventory_movement ==
    \E product_id \in ProductRequestIds, movement_type \in {ENTRADA, SALIDA, AJUSTE},
       quantity \in Quantities :
        CreateInventoryMovement(product_id, movement_type, quantity)

\* variant of AdjustStock that writes the ledger row but leaves product.stock
\* as it was
AdjustStock_StockNotAssigned(product_id, new_stock) ==
    /\ Len(ledger) < MaxLedger
    /\ LET op == "adjust_stock" IN
        IF product_id \notin DOMAIN stock
        THEN /\ response' = HTTPException(product_id, 404, "Producto no encontrado")
             /\ UNCHANGED <<stock, ledger>>
        ELSE LET stock_before == stock[product_id]
                 difference == new_stock - stock_before
                 db_movement == InventoryMovement(product_id, AJUSTE, difference,
                                    stock_before, new_stock, "stock_adjustment")
             IN  /\ stock' = stock
                 /\ ledger' = Append(ledger, db_movement)
                 /\ response' = Reply(op, product_id, 200, Some(db_movement))
    /\ InventoryFrame

AdjustStock(product_id, new_stock) ==
    /\ Len(ledger) < MaxLedger
    /\ LET op == "adjust_stock" IN
        IF product_id \notin DOMAIN stock
        THEN /\ response' = HTTPException(product_id, 404, "Producto no encontrado")
             /\ UNCHANGED <<stock, ledger>>
        ELSE LET stock_before == stock[product_id]
                 difference == new_stock - stock_before
                 db_movement == InventoryMovement(product_id, AJUSTE, difference,
                                    stock_before, new_stock, "stock_adjustment")
             IN  /\ stock' = [stock EXCEPT ![product_id] = new_stock]
                 /\ ledger' = Append(ledger, db_movement)
                 /\ response' = Reply(op, product_id, 200, Some(db_movement))
    /\ InventoryFrame

adjust_stock ==
    \E product_id \in ProductRequestIds, new_stock \in Quantities :
        AdjustStock(product_id, new_stock)

NextInventory ==
    \/ create_inventory_movement
    \/ adjust_stock

SpecInventory == Init /\ [][NextInventory]_vars

(***************************************************************************)
(* crud/product.py, api/routes/installations.py (create_installation) and  *)
(* api/routes/distributors.py (create_sale): the other writers of          *)
(* Product.stock                                                           *)
(***************************************************************************)
\* CRUDProduct.update_stock: the new value of db_obj.stock
CRUDProduct_update_stock(db_obj_stock, quantity, operation) ==
    LET Max(a, b) == IF a >= b THEN a ELSE b IN
    IF operation = "set" THEN quantity
    ELSE IF operation = "add" THEN db_obj_stock + quantity
    ELSE IF operation = "subtract" THEN Max(0, db_obj_stock - quantity)
    ELSE db_obj_stock

\* InstallationCreate.quantity and DistributorSaleCreate.quantity are plain
\* int fields
OrderQuantities == {-1, 1, 2, MaxQty}


StockFrame == UNCHANGED <<now, ticks, leadTables, analyzerState,
                requestState>>

\* variant of create_installation without the stock check
CreateInstallation_NoStockCheck(lead_id, product_id, quantity) ==
    /\ Cardinality(DOMAIN installations) < MaxInstallations
    /\ LET id == Cardinality(DOMAIN installations) + 1 IN
        IF lead_id \notin DOMAIN leads
        THEN /\ response' = HTTPException(lead_id, 400, "Lead not found")
             /\ UNCHANGED <<installations, stock>>
        ELSE IF product_id \notin DOMAIN stock
        THEN /\ response' = HTTPException(product_id, 400, "Product not found")
             /\ UNCHANGED <<installations, stock>>
        ELSE /\ installations' = installations @@
                    (id :> [Installation(None) EXCEPT !.quantity = quantity])
             /\ stock' = [stock EXCEPT ![product_id] =
                             CRUDProduct_update_stock(stock[product_id], quantity, "subtract")]
             /\ response' = InternalServerError(id)
    /\ UNCHANGED <<ledger, sales>>
    /\ StockFrame

\* POST /installations/: the installation row and the stock decrement are
\* committed one after the other; the handler then evaluates
\* LeadStatus.AGENDADO, which the enum does not define, and the request is
\* answered with 500.  No InventoryMovement is created.
CreateInstallation(lead_id, product_id, quantity) ==
    /\ Cardinality(DOMAIN installations) < MaxInstallations
    /\ LET id == Cardinality(DOMAIN installations) + 1 IN
        IF lead_id \notin DOMAIN leads
        THEN /\ response' = HTTPException(lead_id, 400, "Lead not found")
             /\ UNCHANGED <<installations, stock>>
        ELSE IF product_id \notin DOMAIN stock
        THEN /\ response' = HTTPException(product_id, 400, "Product not found")
             /\ UNCHANGED <<installations, stock>>
        ELSE IF stock[product_id] < quantity
        THEN /\ response' = HTTPException(product_id, 400, "Insufficient stock")
             /\ UNCHANGED <<installations, stock>>
        ELSE /\ installations' = installations @@
                    (id :> [Installation(None) EXCEPT !.quantity = quantity])
             /\ stock' = [stock EXCEPT ![product_id] =
                             CRUDProduct_update_stock(stock[product_id], quantity, "subtract")]
             /\ response' = InternalServerError(id)
    /\ UNCHANGED <<ledger, sales>>
    /\ StockFrame

create_installation ==
    \E lead_id \in {1, 2}, product_id \in ProductRequestIds,
       quantity \in OrderQuantities :
        CreateInstallation(lead_id, product_id, quantity)

\* POST /distributors/{distributor_id}/sales: the sale row and the stock
\* decrement are committed together.  No InventoryMovement is created.
CreateSale(distributor_id, product_id, quantity) ==
    /\ Len(sales) < MaxSales
    /\ product_id \in DOMAIN stock => stock[product_id] - quantity <= MaxStock
    /\ IF distributor_id \notin {1}   \* the one row of the distributors table
       THEN /\ response' = HTTPException(distributor_id, 404, "Distributor not found")
            /\ UNCHANGED <<stock, sales>>
       ELSE IF product_id \notin DOMAIN stock
       THEN /\ response' = HTTPException(product_id, 404, "Product not found")
            /\ UNCHANGED <<stock, sales>>
       ELSE IF stock[product_id] >= quantity
       THEN LET sale == [distributor_id |-> distributor_id, product_id |-> product_id,
                         quantity |-> quantity] IN
            /\ stock' = [stock EXCEPT ![product_id] = stock[product_id] - quantity]
            /\ sales' = Append(sales, sale)
            /\ response' = Reply("create_sale", Len(sales) + 1, 201, Some(sale))
       ELSE /\ response' = HTTPException(product_id, 400, "Not enough stock")
            /\ UNCHANGED <<stock, sales>>
    /\ UNCHANGED <<ledger, installations>>
    /\ StockFrame

create_sale ==
    \E distributor_id \in {1, 2}, product_id \in ProductRequestIds,
       quantity \in OrderQuantities :
        CreateSale(distributor_id, product_id, quantity)

\* every handler that writes Product.stock or the ledger
NextStock ==
    \/ create_inventory_movement
    \/ adjust_stock
    \/ create_installation
    \/ create_sale

SpecStock == Init /\ [][NextStock]_vars

(***************************************************************************)
(* api/routes/webhooks.py: text helpers.  A str is a sequence of tokens;   *)
(* what Python decides character by character (case, substrings, regex     *)
(* word boundaries) is given per token by the tables below.                *)
(***************************************************************************)
\* tokens that are not words; "\n" is the only whitespace token
Separators == {"\n", "... ", ", ", ": "}
\* digit strings a caller may dictate, by shape
DigitTokens ==
    [mobile10 |-> {"3001234567", "3109876543"},
     other10 |-> {"6011234567"},
     bare57 |-> {"573001234567"},
     plus57 |-> {"+573001234567"}]

\* str.lower(), str.title() and str.upper() on the words that change
str_lower(text) ==
    LET LowerCase ==
            ("Juan" :> "juan") @@ ("Perez" :> "perez") @@ ("Ana" :> "ana")
            @@ ("Cliente" :> "cliente") @@ ("Precio" :> "precio") @@ ("Hola" :> "hola")
            @@ ("None" :> "none")
    IN  [i \in DOMAIN text |->
            IF text[i] \in DOMAIN LowerCase THEN LowerCase[text[i]] ELSE text[i]]
str_title(text) ==
    LET TitleCase ==
            ("juan" :> "Juan") @@ ("perez" :> "Perez") @@ ("ana" :> "Ana")
            @@ ("cliente" :> "Cliente") @@ ("hola" :> "Hola") @@ ("mi" :> "Mi")
            @@ ("nombre" :> "Nombre") @@ ("sobrenombre" :> "Sobrenombre") @@ ("es" :> "Es")
            @@ ("me" :> "Me") @@ ("llamo" :> "Llamo") @@ ("soy" :> "Soy") @@ ("la" :> "La")
            @@ ("os" :> "Os") @@ ("quiero" :> "Quiero") @@ ("comprar" :> "Comprar")
            @@ ("necesito" :> "Necesito") @@ ("instalar" :> "Instalar")
            @@ ("precio" :> "Precio") @@ ("precios" :> "Precios") @@ ("agendar" :> "Agendar")
            @@ ("interesa" :> "Interesa") @@ ("interesado" :> "Interesado")
            @@ ("huella" :> "Huella") @@ ("cerradura" :> "Cerradura")
            @@ ("gracias" :> "Gracias") @@ ("perfecto" :> "Perfecto") @@ ("none" :> "None")
    IN  [i \in DOMAIN text |->
            IF text[i] \in DOMAIN TitleCase THEN TitleCase[text[i]] ELSE text[i]]
\* word ends with k / begins with k (the shorter words a word ends or begins
\* with are listed)
HasSuffix(word, k) ==
    LET Suffixes == ("sobrenombre" :> {"nombre"})
    IN  k = word \/ (word \in DOMAIN Suffixes /\ k \in Suffixes[word])
HasPrefix(word, k) ==
    LET Prefixes ==
            ("precios" :> {"precio"}) @@ ("os566f" :> {"os566"})
            @@ ("interesado" :> {"interesa"}) @@ ("pendiente-" :> {"pendiente"})
    IN  k = word \/ (word \in DOMAIN Prefixes /\ k \in Prefixes[word])

\* phrase in text, for a phrase of one or more words that are one space apart
PhraseIn(phrase, text) ==
    LET PhraseAt(i) ==
            /\ i + Len(phrase) - 1 <= Len(text)
            /\ IF Len(phrase) = 1
               THEN HasSuffix(text[i], phrase[1]) \/ HasPrefix(text[i], phrase[1])
               ELSE /\ HasSuffix(text[i], phrase[1])
                    /\ \A j \in 2..(Len(phrase) - 1) : text[i + j - 1] = phrase[j]
                    /\ HasPrefix(text[i + Len(phrase) - 1], phrase[Len(phrase)])
    IN  \E i \in 1..Len(text) : PhraseAt(i)

\* the least element of a non-empty set of positions
Least(S) == CHOOSE i \in S : \A j \in S : i <= j

\* Keywords for interest level detection
HIGH_INTEREST_KEYWORDS ==
    << <<"quiero", "comprar">>, <<"necesito", "instalar">>, <<"cuánto", "cuesta">>,
       <<"precio">>, <<"agendar">>, <<"programar", "instalación">>,
       <<"me", "interesa">>, <<"quiero", "cotizar">>, <<"listo", "para">>,
       <<"puedo", "pagar">>, <<"disponibilidad">>, <<"cuando", "pueden">> >>
PRODUCT_KEYWORDS ==
    << [product |-> "os566f",
        keywords |-> << <<"os566f">>, <<"os", "566">>, <<"os566">>, <<"huella">>, <<"biométrica">> >>],
       [product |-> "os505",
        keywords |-> << <<"os505">>, <<"os", "505">>, <<"manija">>, <<"básica">> >>],
       [product |-> "os600",
        keywords |-> << <<"os600">>, <<"os", "600">>, <<"premium">>, <<"wifi">> >>],
       [product |-> "cerradura",
        keywords |-> << <<"cerradura">>, <<"chapa">>, <<"lock">>, <<"candado">> >>] >>

\* format_transcript.  transcript_data is [kind, value]: None ("none"), a str
\* ("str"), a list of {"role", "message"} dicts ("list"), or a dict whose
\* "messages" is such a list ("dict"); a null message is formatted as "None".
format_transcript(transcript_data) ==
    LET RECURSIVE JoinLines(_)
        \* "\n".join(lines)
        JoinLines(lines) ==
            IF lines = <<>> THEN <<>>
            ELSE IF Len(lines) = 1 THEN lines[1]
            ELSE lines[1] \o <<"\n">> \o JoinLines(Tail(lines))
    IN  IF transcript_data.kind = "none" THEN EmptyStr
        ELSE IF transcript_data.kind = "str" THEN transcript_data.value
        ELSE JoinLines([n \in DOMAIN transcript_data.value |->
                LET msg == transcript_data.value[n]
                    speaker == IF msg.role = "agent" THEN "Ana" ELSE "Cliente"
                    message == IF msg.message = None THEN <<"None">> ELSE msg.message[1]
                IN  <<speaker, ": ">> \o message])

\* extract_phone_from_text.  After text.replace(" ", "") every token touches
\* its neighbours, so \b holds at the edge of a token only where the neighbour
\* does not begin / end with a word character.
extract_phone_from_text(text) ==
    LET EndsWithWordChar(token) == token \notin Separators
        StartsWithWordChar(token) ==
            token \notin Separators /\ token \notin DigitTokens.plus57
        BoundaryBefore(i) == i = 1 \/ ~EndsWithWordChar(text[i - 1])
        BoundaryAfter(i) == i = Len(text) \/ ~StartsWithWordChar(text[i + 1])
        \* the four Colombian phone patterns, in order, matching the token at i
        PhonePatternAt(k, i) ==
            IF k = 1
            THEN text[i] \in DigitTokens.mobile10 /\ BoundaryBefore(i) /\ BoundaryAfter(i)
            ELSE IF k = 2
            THEN /\ text[i] \in DigitTokens.plus57
                 /\ i > 1 /\ EndsWithWordChar(text[i - 1])
                 /\ BoundaryAfter(i)
            ELSE IF k = 3
            THEN \/ text[i] \in DigitTokens.bare57 /\ BoundaryBefore(i) /\ BoundaryAfter(i)
                 \/ text[i] \in DigitTokens.plus57 /\ BoundaryAfter(i)
            ELSE /\ text[i] \in DigitTokens.mobile10 \cup DigitTokens.other10
                 /\ BoundaryBefore(i) /\ BoundaryAfter(i)
        \* re.sub(r'[^\d+]', '', match.group()) and the +57 normalisation
        StripPlus == ("+573001234567" :> "573001234567")
        AddPlus57 == ("3001234567" :> "+573001234567") @@ ("3109876543" :> "+573109876543")
        AddPlus == ("573001234567" :> "+573001234567")
        MatchedDigits(k, token) ==
            IF k = 3 /\ token \in DigitTokens.plus57 THEN StripPlus[token] ELSE token
        NormalizePhone(phone) ==
            IF phone \in DigitTokens.mobile10 THEN AddPlus57[phone]
            ELSE IF phone \in DigitTokens.bare57 THEN AddPlus[phone]
            ELSE phone
        Matches(k) == {i \in 1..Len(text) : PhonePatternAt(k, i)}
        Hits == {k \in 1..4 : Matches(k) /= {}}
    IN  IF Hits = {} THEN None
        ELSE LET k == Least(Hits)
                 i == Least(Matches(k))
             IN  Some(<<NormalizePhone(MatchedDigits(k, text[i]))>>)

\* group(1) of a name pattern whose prefix ends with the token at i and is
\* followed by one or more characters of skip or spaces: one word and, when
\* whitespace and letters follow it, a second one (<<>> when nothing matches)
NameGroup(text, i, skip) ==
    LET \* words that mix letters and digits, with their leading run of letters
        MixedTokens == ("os505" :> "os") @@ ("os566f" :> "os") @@ ("os600" :> "os")
        AllDigitTokens == DigitTokens.mobile10 \cup DigitTokens.other10
                          \cup DigitTokens.bare57 \cup DigitTokens.plus57
        \* the leading run of letters of a token ("" when it begins otherwise)
        LeadingLetters(token) ==
            IF token \in Separators \cup AllDigitTokens THEN ""
            ELSE IF token \in DOMAIN MixedTokens THEN MixedTokens[token]
            ELSE token
        \* the first token after position k that is not in s (0 when none)
        NextAfter(k, s) ==
            LET S == {j \in (k + 1)..Len(text) : text[j] \notin s}
            IN  IF S = {} THEN 0 ELSE Least(S)
        j == NextAfter(i, skip)
    IN  IF j = 0 THEN <<>>
        ELSE IF LeadingLetters(text[j]) = "" THEN <<>>
        ELSE IF LeadingLetters(text[j]) /= text[j] THEN <<LeadingLetters(text[j])>>
        ELSE LET j2 == NextAfter(j, {"\n"}) IN
             IF j2 = 0 THEN <<text[j]>>
             ELSE IF LeadingLetters(text[j2]) = "" THEN <<text[j]>>
             ELSE SubSeq(text, j, j2 - 1) \o <<LeadingLetters(text[j2])>>

\* re.search(pattern, text_lower) for a pattern that begins with one of the
\* triggers, as words: group(1) of the leftmost match (<<>> when the pattern
\* does not match)
NameSearch(triggers, text, skip) ==
    LET TriggerAt(trigger, i) ==
            /\ i + Len(trigger) - 1 <= Len(text)
            /\ HasSuffix(text[i], trigger[1])
            /\ \A j \in 2..Len(trigger) : text[i + j - 1] = trigger[j]
        Group(i, n) == NameGroup(text, i + Len(triggers[n]) - 1, skip)
        MatchAt(i, n) == TriggerAt(triggers[n], i) /\ Group(i, n) /= <<>>
        Starts == {i \in 1..Len(text) : \E n \in DOMAIN triggers : MatchAt(i, n)}
    IN  IF Starts = {} THEN <<>>
        ELSE LET i == Least(Starts)
                 n == Least({m \in DOMAIN triggers : MatchAt(i, m)})
             IN  Group(i, n)

extract_name_from_text(text) ==
    LET text_lower == str_lower(text)
        \* (?:mi nombre es|me llamo|soy) and nombre
        NameTriggers == << <<"mi", "nombre", "es">>, <<"me", "llamo">>, <<"soy">> >>
        NombreTrigger == << <<"nombre">> >>
        \* words of one or two characters
        ShortWords == {"mi", "es", "me", "la", "os", "yo"}
        \* len(name) > 2
        LongerThanTwo(name) ==
            Len(name) > 1 \/ (Len(name) = 1 /\ name[1] \notin ShortWords)
        first == NameSearch(NameTriggers, text_lower, {"\n"})
        second == NameSearch(NombreTrigger, text_lower, {"\n", ": "})
    IN  IF first /= <<>> /\ LongerThanTwo(first) THEN Some(str_title(first))
        ELSE IF second /= <<>> /\ LongerThanTwo(second) THEN Some(str_title(second))
        ELSE None

detect_product_interest(text) ==
    LET str_upper(word) ==
            LET UpperCase ==
                    ("os566f" :> "OS566F") @@ ("os505" :> "OS505") @@ ("os600" :> "OS600")
                    @@ ("cerradura" :> "CERRADURA")
            IN  IF word \in DOMAIN UpperCase THEN UpperCase[word] ELSE word
        text_lower == str_lower(text)
        Hits == {p \in DOMAIN PRODUCT_KEYWORDS :
                    \E n \in DOMAIN PRODUCT_KEYWORDS[p].keywords :
                        PhraseIn(PRODUCT_KEYWORDS[p].keywords[n], text_lower)}
    IN  IF Hits = {} THEN None
        ELSE Some(<<str_upper(PRODUCT_KEYWORDS[Least(Hits)].product)>>)

calculate_interest_level(text) ==
    LET text_lower == str_lower(text)
        interest_score ==
            Cardinality({n \in DOMAIN HIGH_INTEREST_KEYWORDS :
                            PhraseIn(HIGH_INTEREST_KEYWORDS[n], text_lower)})
    IN  IF interest_score >= 3 THEN "high"
        ELSE IF interest_score >= 1 THEN "medium"
        ELSE "low"

\* variant of determine_lead_status that asks for medium interest and contact
\* info together
determine_lead_status_BothNeeded(interest_level, has_contact_info) ==
    IF interest_level = "high" /\ has_contact_info THEN POTENCIAL
    ELSE IF interest_level = "medium" /\ has_contact_info THEN EN_CONVERSACION
    ELSE NUEVO

determine_lead_status(interest_level, has_contact_info) ==
    IF interest_level = "high" /\ has_contact_info THEN POTENCIAL
    ELSE IF interest_level = "medium" \/ has_contact_info THEN EN_CONVERSACION
    ELSE NUEVO

(***************************************************************************)
(* schemas/lead.py and api/routes/webhooks.py: analyze_conversation        *)
(***************************************************************************)
\* ElevenLabsAnalysisData: every field is Optional[str]
ElevenLabsAnalysisData(customer_name, customer_phone, customer_email, customer_address, product_interest, interest_level, summary) ==
    [customer_name |-> customer_name,
     customer_phone |-> customer_phone,
     customer_email |-> customer_email,
     customer_address |-> customer_address,
     product_interest |-> product_interest,
     interest_level |-> interest_level,
     summary |-> summary]

\* the extra keys analyze_conversation reads from the payload; the schema does
\* not declare them (extra = "allow"), so reading one the body did not carry
\* raises AttributeError
ExtraKeys ==
    {"collected_data", "data_collection", "customer_name", "customer_phone",
     "customer_email", "customer_address", "product_interest", "notes"}

\* ElevenLabsWebhookPayload(**data): the declared fields conversation_id,
\* transcript and analysis, the set of extra keys of the body (keys) and their
\* values (None for a key the body did not carry, which is never read)
ElevenLabsWebhookPayload(conversation_id, transcript, analysis_data, keys, collected_data, data_collection, customer_name, customer_phone, customer_email, customer_address, product_interest, notes) ==
    [conversation_id |-> conversation_id,
     transcript |-> transcript,
     analysis |-> analysis_data,
     keys |-> keys,
     collected_data |-> collected_data,
     data_collection |-> data_collection,
     customer_name |-> customer_name,
     customer_phone |-> customer_phone,
     customer_email |-> customer_email,
     customer_address |-> customer_address,
     product_interest |-> product_interest,
     notes |-> notes]

\* bool(v) for an Optional[str], and Python's "a or b"
Truthy(v) == v /= None /\ v /= Some(EmptyStr)
Or(a, b) == IF Truthy(a) THEN a ELSE b

\* a dict is a function from its keys; bool(d) for an Optional[dict]
DictTruthy(d) == d /= None /\ DOMAIN d[1] /= {}

\* the result dict of analyze_conversation; error names the exception that
\* ended the call instead ("" when it returned)
AnalysisResult(error, name, phone, email, address, product_interest, interest_level, notes) ==
    [error |-> error,
     name |-> name,
     phone |-> phone,
     email |-> email,
     address |-> address,
     product_interest |-> product_interest,
     interest_level |-> interest_level,
     notes |-> notes]

AttributeError == AnalysisResult("AttributeError", None, None, None, None, None, "low", None)

\* 1. Check analysis data from ElevenLabs
FromAnalysis(p) ==
    IF p.analysis = None
    THEN AnalysisResult("", None, None, None, None, None, "low", None)
    ELSE LET a == p.analysis[1] IN
         AnalysisResult("", a.customer_name, a.customer_phone, a.customer_email,
                        a.customer_address, a.product_interest,
                        IF a.interest_level = None \/ a.interest_level = Some("")
                        THEN "medium" ELSE a.interest_level[1],
                        a.summary)

\* 2. Check collected_data or data_collection
FromCollected(result, collected) ==
    LET DictGet(k) == IF k \in DOMAIN collected THEN collected[k] ELSE None IN
    IF DOMAIN collected = {} THEN result
    ELSE [result EXCEPT
            !.name = Or(Or(result.name, DictGet("customer_name")), DictGet("name")),
            !.phone = Or(Or(result.phone, DictGet("customer_phone")), DictGet("phone")),
            !.email = Or(Or(result.email, DictGet("customer_email")), DictGet("email")),
            !.address = Or(Or(result.address, DictGet("customer_address")),
                           DictGet("address")),
            !.product_interest =
                Or(Or(result.product_interest, DictGet("product_interest")),
                   DictGet("product"))]

\* variant of FromPayload in which the top-level fields come first
FromPayload_Overrides(result, p) ==
    [result EXCEPT
        !.name = Or(p.customer_name, result.name),
        !.phone = Or(p.customer_phone, result.phone),
        !.email = Or(p.customer_email, result.email),
        !.address = Or(p.customer_address, result.address),
        !.product_interest = Or(p.product_interest, result.product_interest),
        !.notes = Or(p.notes, result.notes)]

\* 3. Check direct payload fields
FromPayload(result, p) ==
    [result EXCEPT
        !.name = Or(result.name, p.customer_name),
        !.phone = Or(result.phone, p.customer_phone),
        !.email = Or(result.email, p.customer_email),
        !.address = Or(result.address, p.customer_address),
        !.product_interest = Or(result.product_interest, p.product_interest),
        !.notes = Or(result.notes, p.notes)]

\* 4. Analyze transcript text
FromTranscript(result, transcript_text) ==
    IF transcript_text = EmptyStr THEN result
    ELSE [result EXCEPT
            !.phone = IF ~Truthy(result.phone)
                      THEN extract_phone_from_text(transcript_text) ELSE result.phone,
            !.name = IF ~Truthy(result.name)
                     THEN extract_name_from_text(transcript_text) ELSE result.name,
            !.product_interest =
                IF ~Truthy(result.product_interest)
                THEN detect_product_interest(transcript_text) ELSE result.product_interest,
            !.interest_level =
                IF result.interest_level = "low"
                THEN calculate_interest_level(transcript_text) ELSE result.interest_level]

analyze_conversation(p) ==
    LET first == FromAnalysis(p)
        \* collected = payload.collected_data or payload.data_collection or {}
        collected == IF DictTruthy(p.collected_data) THEN p.collected_data[1]
                     ELSE IF DictTruthy(p.data_collection) THEN p.data_collection[1]
                     ELSE <<>>
        second == FromCollected(first, collected)
        \* the extra keys step 3 reads: "a or payload.x" reads x only when a is
        \* falsy
        KeysReadByFromPayload ==
            {k \in ExtraKeys :
                \/ k = "customer_name" /\ ~Truthy(second.name)
                \/ k = "customer_phone" /\ ~Truthy(second.phone)
                \/ k = "customer_email" /\ ~Truthy(second.email)
                \/ k = "customer_address" /\ ~Truthy(second.address)
                \/ k = "product_interest" /\ ~Truthy(second.product_interest)
                \/ k = "notes" /\ ~Truthy(second.notes)}
    IN  IF "collected_data" \notin p.keys THEN AttributeError
        ELSE IF ~DictTruthy(p.collected_data) /\ "data_collection" \notin p.keys
        THEN AttributeError
        ELSE IF ~(KeysReadByFromPayload \subseteq p.keys) THEN AttributeError
        ELSE FromTranscript(FromPayload(second, p), format_transcript(p.transcript))

(***************************************************************************)
(* api/routes/webhooks.py: the steps of elevenlabs_conversation_webhook    *)
(* between the analysis and the insert                                     *)
(***************************************************************************)
\* f"pendiente-{payload.conversation_id[:8]}"
PlaceholderPhone(conversation_id) == <<"pendiente-", Head(conversation_id)>>

\* if not analysis["phone"] and not analysis["name"]: placeholder data
WithPlaceholder(a, conversation_id) ==
    IF ~Truthy(a.phone) /\ ~Truthy(a.name)
    THEN [a EXCEPT !.name = Some(<<"Cliente", "sin", "identificar">>),
                   !.phone = Some(PlaceholderPhone(conversation_id))]
    ELSE a

\* phone.startswith("pendiente")
StartsWithPendiente(phone) == phone /= EmptyStr /\ HasPrefix(phone[1], "pendiente")

\* has_contact = bool(analysis["phone"] and not analysis["phone"].startswith("pendiente"))
HasContact(a) == Truthy(a.phone) /\ ~StartsWithPendiente(a.phone[1])

(***************************************************************************)
(* The analysis as a function of the payload: payloads of every shape are  *)
(* analysed and classified on their own, without the database.             *)
(***************************************************************************)
Message(role, message) == [role |-> role, message |-> message]
Transcript(kind, value) == [kind |-> kind, value |-> value]

ScenarioText ==
    <<"mi", "nombre", "es", "Juan", "... ", "3001234567", "... ",
      "quiero", "comprar", ", ", "necesito", "instalar", ", ", "precio">>
ChatMessages ==
    << Message("agent", Some(<<"Hola">>)),
       Message("user", Some(<<"me", "llamo", "juan", ", ", "me", "interesa", "la", "huella">>)),
       Message("agent", Some(<<"perfecto", ", ", "agendar">>)) >>
DictMessages ==
    << Message("user", Some(<<"soy", "juan">>)), Message("agent", None) >>

\* the value a structured source supplies for a field
SourceValue(source, field) == Some(<<source, field>>)

\* A payload in which the sources of nm / ph / rest supply the name / the
\* phone / the other fields.  A source that does not supply a field carries
\* null (analysis), "" (collected) or, at the top level, null when nulls and
\* no key at all otherwise.  The collected dict is sent under the key where.
AnalyzerPayload(tr, level, nm, ph, rest, where, nulls) ==
    LET FromSource(source, mask, field, empty) ==
            IF source \in mask THEN SourceValue(source, field) ELSE empty
        analysis_data ==
            IF level = "absent" THEN None
            ELSE Some(ElevenLabsAnalysisData(
                    FromSource("analysis", nm, "name", None),
                    FromSource("analysis", ph, "phone", None),
                    FromSource("analysis", rest, "email", None),
                    FromSource("analysis", rest, "address", None),
                    FromSource("analysis", rest, "product_interest", None),
                    IF level = "none" THEN None ELSE Some(level),
                    FromSource("analysis", rest, "summary", None)))
        MaskOf == ("customer_name" :> nm) @@ ("phone" :> ph) @@ ("customer_email" :> rest)
                  @@ ("address" :> rest) @@ ("product" :> rest)
        collected ==
            [k \in {c \in DOMAIN MaskOf : "collected" \in MaskOf[c] \/ nulls} |->
                FromSource("collected", MaskOf[k], k, Some(EmptyStr))]
        keys ==
            {k \in ExtraKeys :
                \/ nulls
                \/ k = where
                \/ k = "customer_name" /\ "payload" \in nm
                \/ k = "customer_phone" /\ "payload" \in ph
                \/ k \in {"customer_email", "customer_address", "product_interest", "notes"}
                    /\ "payload" \in rest}
    IN  ElevenLabsWebhookPayload(
            Some(<<"conv_001", "a">>), tr, analysis_data, keys,
            IF where = "collected_data" THEN Some(collected) ELSE None,
            IF where = "data_collection" THEN Some(collected) ELSE None,
            FromSource("payload", nm, "name", None),
            FromSource("payload", ph, "phone", None),
            FromSource("payload", rest, "email", None),
            FromSource("payload", rest, "address", None),
            FromSource("payload", rest, "product_interest", None),
            FromSource("payload", rest, "notes", None))

\* payloads of every transcript format, with each field supplied by any
\* set of the three structured sources, and with the interest level of the
\* analysis object ("absent": the payload has no analysis object)
InitAnalyze ==
    /\ InitDatabase
    /\ LET AnalyzerTranscripts ==
                {Transcript("none", <<>>),
                 Transcript("str", ScenarioText),
                 Transcript("str", <<"Precio", "precio", "precios">>),
                 Transcript("str", <<"hola">>),
                 Transcript("list", ChatMessages),
                 Transcript("dict", DictMessages)}
            Sources == {"analysis", "collected", "payload"}
            RestMasks == {{}, {"analysis"}, {"payload"}, {"collected", "payload"}}
            AnalysisLevels == {"absent", "none", "low", "medium", "high"}
       IN  \E tr \in AnalyzerTranscripts, level \in AnalysisLevels,
              nm \in SUBSET Sources, ph \in SUBSET Sources, rest \in RestMasks,
              where \in {"collected_data", "data_collection"}, nulls \in BOOLEAN :
            payload = AnalyzerPayload(tr, level, nm, ph, rest, where, nulls)
    /\ analysis = None
    /\ lead_status = None

\* analysis = analyze_conversation(payload)
AnalyzeConversation ==
    /\ analysis = None
    /\ analysis' = Some(analyze_conversation(payload))
    /\ UNCHANGED <<payload, lead_status>>
    /\ UNCHANGED <<now, ticks, installations, stock, ledger, response, sales, leadTables,
                   requestState>>

\* lead_status = determine_lead_status(analysis["interest_level"], has_contact),
\* after the placeholder data is filled in
DetermineLeadStatus ==
    /\ analysis /= None
    /\ analysis[1].error = ""
    /\ lead_status = None
    /\ LET a == WithPlaceholder(analysis[1], payload.conversation_id[1]) IN
        lead_status' = Some(determine_lead_status(a.interest_level, HasContact(a)))
    /\ UNCHANGED <<payload, analysis>>
    /\ UNCHANGED <<now, ticks, installations, stock, ledger, response, sales, leadTables,
                   requestState>>

NextAnalyze ==
    \/ AnalyzeConversation
    \/ DetermineLeadStatus

SpecAnalyze == InitAnalyze /\ [][NextAnalyze]_vars

(***************************************************************************)
(* crud/lead.py and api/routes/webhooks.py: the webhook of the voice       *)
(* assistant.  The platform delivers the event of a conversation any       *)
(* number of times; every delivery of a conversation carries the same body.*)
(***************************************************************************)
\* db.query(Lead).filter(Lead.phone == phone): the rows .first() may return
\* (the query has no ORDER BY)
get_by_phone(rows, phone) == {id \in DOMAIN rows : rows[id].phone = phone}

\* variant of get_by_elevenlabs_conversation that finds no row
get_by_elevenlabs_conversation_NeverFound(rows, conversation_id) == {}

\* db.query(Lead).filter(Lead.elevenlabs_conversation_id == conversation_id):
\* the rows .first() may return; "== None" compiles to IS NULL
get_by_elevenlabs_conversation(rows, conversation_id) ==
    {id \in DOMAIN rows : rows[id].elevenlabs_conversation_id = conversation_id}

create_from_elevenlabs(rows, conversation_id, name, phone, email, address, product_interest, transcript, notes, status, source) ==
    Append(rows, Lead(name, phone, email, address, status, source, notes,
                      product_interest, conversation_id, transcript))

\* the body the platform sends for each conversation: a caller who only says
\* the name, an unidentified caller, two calls from the phone of the seeded
\* lead, two calls from another phone, and a body in the nested format, whose
\* top level has no conversation_id and none of the extra keys
WebhookEvents ==
    LET Event(conversation_id, p) == [p EXCEPT !.conversation_id = conversation_id]
        Body(tr, level, nm, ph, rest) ==
            AnalyzerPayload(tr, level, nm, ph, rest, "collected_data", TRUE)
    IN  {Event(Some(<<"conv_001", "a">>),
               Body(Transcript("dict", DictMessages), "absent", {}, {}, {})),
         Event(Some(<<"conv_001", "b">>),
               Body(Transcript("str", <<"hola">>), "none", {}, {}, {})),
         Event(Some(<<"conv_002", "a">>),
               Body(Transcript("str", ScenarioText), "absent", {}, {}, {})),
         Event(Some(<<"conv_002", "b">>),
               Body(Transcript("str", <<"3001234567">>), "medium", {}, {}, {"analysis"})),
         Event(Some(<<"conv_003", "a">>),
               Body(Transcript("str", <<"hola">>), "absent", {}, {"collected"}, {})),
         Event(Some(<<"conv_003", "b">>),
               Body(Transcript("list", ChatMessages), "high", {"payload"}, {"collected"},
                    {"analysis"})),
         ElevenLabsWebhookPayload(None, None, None, {}, None, None, None, None, None,
                                  None, None, None)}

\* analyze_conversation(payload) and format_transcript(payload.transcript) of
\* each body
AnalysisOf == [p \in WebhookEvents |-> analyze_conversation(p)]
TranscriptTextOf == [p \in WebhookEvents |-> format_transcript(p.transcript)]

\* deliveries answered with a lead so far
Deliveries(n) ==
    LET RECURSIVE Sum(_)
        Sum(S) == IF S = {} THEN 0
                  ELSE LET c == CHOOSE x \in S : TRUE
                       IN  n[c].delivered + Sum(S \ {c})
    IN  Sum(DOMAIN n)

\* the delivery of conversation_id was answered with a lead, after inserting
\* created rows
Answered(conversation_id, created) ==
    processed' = [processed EXCEPT ![conversation_id] =
                    [delivered |-> @.delivered + 1, created |-> @.created + created]]

WebhookFrame ==
    UNCHANGED <<now, ticks, installations, stock, ledger, sales, analyzerState,
                requestState>>

\* Update existing lead with conversation data
UpdatedFromConversation(existing_phone, conversation_id, transcript_text, a) ==
    [existing_phone EXCEPT
        !.elevenlabs_conversation_id = conversation_id,
        !.conversation_transcript = Some(transcript_text),
        !.product_interest = IF Truthy(a.product_interest) THEN a.product_interest ELSE @,
        !.notes = IF Truthy(a.notes)
                  THEN Some((IF Truthy(@) THEN @[1] ELSE EmptyStr)
                            \o <<"\n", "[Ana]">> \o a.notes[1])
                  ELSE @,
        !.status = IF a.interest_level = "high" /\ @ = NUEVO THEN POTENCIAL ELSE @]

\* the handler after the lookup by conversation id found no lead: the
\* conversation is analysed and stored on the lead with its phone, or on a
\* new lead
StoreConversation(p) ==
    LET a0 == AnalysisOf[p]
        transcript_text == TranscriptTextOf[p]
    IN
       IF a0.error /= ""
       THEN /\ response' = InternalServerError(0)
            /\ UNCHANGED leadTables
       ELSE IF ~Truthy(a0.phone) /\ p.conversation_id = None
       THEN \* None[:8]
            /\ response' = [InternalServerError(0) EXCEPT !.detail = "TypeError"]
            /\ UNCHANGED leadTables
       ELSE LET a == WithPlaceholder(a0, p.conversation_id[1])
                existing_phone ==
                    IF Truthy(a.phone) /\ ~StartsWithPendiente(a.phone[1])
                    THEN get_by_phone(leads, a.phone[1]) ELSE {}
            IN
            IF existing_phone /= {}
            THEN \E id \in existing_phone :
                    /\ leads' = [leads EXCEPT ![id] =
                                    UpdatedFromConversation(@, p.conversation_id,
                                                            transcript_text, a)]
                    /\ response' = Reply("elevenlabs_conversation_webhook", id, 200,
                                         Some(leads'[id]))
                    /\ Answered(p.conversation_id, 0)
            ELSE LET has_contact == HasContact(a)
                     lead_status_ == determine_lead_status(a.interest_level, has_contact)
                 IN  /\ leads' = create_from_elevenlabs(
                            leads, p.conversation_id,
                            IF Truthy(a.name) THEN a.name[1] ELSE <<"Cliente", "de", "Ana">>,
                            IF Truthy(a.phone) THEN a.phone[1]
                            ELSE PlaceholderPhone(p.conversation_id[1]),
                            a.email, a.address, a.product_interest,
                            Some(transcript_text), a.notes, lead_status_, ANA_VOICE)
                     /\ response' = Reply("elevenlabs_conversation_webhook", Len(leads'),
                                          200, Some(leads'[Len(leads')]))
                     /\ Answered(p.conversation_id, 1)

\* POST /webhooks/elevenlabs/conversation (no webhook secret is configured)
ElevenlabsConversationWebhook(p) ==
    /\ Deliveries(processed) < MaxDeliveries
    /\ WebhookFrame
    /\ LET existing == get_by_elevenlabs_conversation(leads, p.conversation_id) IN
       IF existing /= {}
       THEN \E id \in existing :
                /\ response' = Reply("elevenlabs_conversation_webhook", id, 200,
                                     Some(leads[id]))
                /\ leads' = leads
                /\ Answered(p.conversation_id, 0)
       ELSE StoreConversation(p)

elevenlabs_conversation_webhook == \E p \in WebhookEvents : ElevenlabsConversationWebhook(p)

NextWebhook == elevenlabs_conversation_webhook

SpecWebhook == Init /\ [][NextWebhook]_vars

(***************************************************************************)
(* api/routes/leads.py: leads entered and edited by hand, next to the      *)
(* webhook                                                                 *)
(***************************************************************************)
\* POST /leads/
CreateLead(lead_in) ==
    /\ Len(leads) < MaxLeads
    /\ WebhookFrame
    /\ UNCHANGED processed
    /\ IF get_by_phone(leads, lead_in.phone) /= {}
       THEN /\ response' = HTTPException(0, 400, "Lead with this phone already exists")
            /\ leads' = leads
       ELSE /\ leads' = Append(leads, Lead(lead_in.name, lead_in.phone, lead_in.email,
                                           lead_in.address, NUEVO, lead_in.source,
                                           lead_in.notes, lead_in.product_interest,
                                           None, None))
            /\ response' = Reply("create_lead", Len(leads'), 200, Some(leads'[Len(leads')]))

\* LeadCreate: name and phone are required, source defaults to website
create_lead ==
    \E phone \in {<<"3109876543">>} :   \* the phone a user types
        CreateLead([name |-> <<"Pedro">>, phone |-> phone, email |-> None,
                    address |-> None, source |-> WEBSITE, notes |-> None,
                    product_interest |-> None])

\* PUT /leads/{lead_id} with a LeadUpdate that sets the phone
UpdateLead(lead_id, phone) ==
    /\ WebhookFrame
    /\ UNCHANGED processed
    /\ IF lead_id \notin DOMAIN leads
       THEN /\ response' = HTTPException(lead_id, 404, "Lead not found")
            /\ leads' = leads
       ELSE /\ leads' = [leads EXCEPT ![lead_id].phone = phone]
            /\ response' = Reply("update_lead", lead_id, 200, Some(leads'[lead_id]))

update_lead == \E lead_id \in 1..MaxLeads, phone \in {<<"3109876543">>} : UpdateLead(lead_id, phone)

NextLeads ==
    \/ elevenlabs_conversation_webhook
    \/ create_lead
    \/ update_lead

SpecLeads == Init /\ [][NextLeads]_vars

(***************************************************************************)
(* Properties of the installation timer (checked under Spec)              *)
(***************************************************************************)
Running(db_obj) == db_obj.timer_started_at /= None /\ db_obj.timer_ended_at = None

\* a request to stop the timer of installation id, through any of the three
\* stop endpoints (the technician endpoint by the assigned technician)
StopAttempt(id) ==
    \/ StopTimerRoute("stop_installation_timer", id)
    \/ StopTimerRoute("stop_timer_for_app", id)
    \/ TechStopTimer(id, AssignedTechnician)

\* a request to start the timer of installation id on behalf of started_by
StartAttempt(id, started_by) ==
    \/ StartTimerRoute("start_installation_timer", id, started_by)
    \/ StartTimerRoute("start_timer_for_app", id, started_by)
    \/ (started_by = TIMER_STARTED_BY_TECHNICIAN /\ TechStartTimer(id, AssignedTechnician))


\* C1: stopping the timer of an installation whose timer is not running
\* (never started, or already stopped) is answered with 400 and leaves the
\* installation row (timer_started_at, timer_ended_at,
\* installation_duration_minutes, status) as it was.
C1_StopNotRunningFails ==
    [][\A id \in InstallationIds :
        (~Running(installations[id]) /\ StopAttempt(id))
            => /\ response'.code = 400
               /\ installations'[id] = installations[id]]_vars

\* C1 witness: a stop request on an already stopped timer was rejected with
\* 400, the recorded end and duration still in place.
C1_Witness ==
    /\ response.id = 1
    /\ response.code = 400
    /\ response.detail \in {"Timer has already been stopped", "El timer ya fue detenido"}
    /\ installations[1].timer_ended_at /= None
    /\ installations[1].installation_duration_minutes /= None

\* C2 (as claimed): starting the timer of an installation whose timer is
\* already running changes no field of the installation and is answered
\* with the current timer state (200), not with an error, for any started_by.
C2_StartRunningReturnsState ==
    [][\A id \in InstallationIds, started_by \in TimerStartedByType :
        (Running(installations[id]) /\ StartAttempt(id, started_by))
            => /\ installations'[id] = installations[id]
               /\ response'.code = 200
               /\ response'.body /= None
               /\ response'.body[1].is_running
               /\ response'.body[1].timer_started_at = installations[id].timer_started_at
               /\ response'.body[1].timer_started_by = installations[id].timer_started_by]_vars

\* C3: once the timer has been stopped, installation_duration_minutes is the
\* floor, in whole minutes, of timer_ended_at - timer_started_at, whenever
\* that difference is not negative.
C3_DurationIsFloorMinutes ==
    \A id \in DOMAIN installations :
        LET i == installations[id] IN
        (/\ i.timer_started_at /= None
         /\ i.timer_ended_at /= None
         /\ i.timer_ended_at[1] >= i.timer_started_at[1])
            => i.installation_duration_minutes
                 = Some((i.timer_ended_at[1] - i.timer_started_at[1]) \div 60)

\* C3 witness: a timer stopped 90 seconds after its start, duration 1.
C3_Witness ==
    /\ installations[1].timer_started_at /= None
    /\ installations[1].timer_ended_at /= None
    /\ installations[1].timer_ended_at[1] - installations[1].timer_started_at[1] = 90
    /\ installations[1].installation_duration_minutes = Some(1)

C5_StartKeepsCompletedAndCancelled ==
    [][\A id \in InstallationIds, started_by \in TimerStartedByType :
        (~Running(installations[id]) /\ StartAttempt(id, started_by))
            => installations'[id].status =
                 IF installations[id].status \in {COMPLETADA, CANCELADA}
                 THEN installations[id].status
                 ELSE EN_PROGRESO]_vars

\* C6: in every reachable state installation_duration_minutes is set only
\* if timer_started_at and timer_ended_at are both set.
C6_DurationOnlyWithBothTimestamps ==
    \A id \in DOMAIN installations :
        installations[id].installation_duration_minutes /= None
            => /\ installations[id].timer_started_at /= None
               /\ installations[id].timer_ended_at /= None

\* C6 witness: a duration is stored and the installation was completed and
\* its status changed again afterwards.
C6_Witness ==
    /\ installations[1].installation_duration_minutes /= None
    /\ installations[1].completed_at /= None
    /\ installations[1].status = CANCELADA

\* C7: stopping the timer leaves timer_started_at and timer_started_by as
\* the start recorded them, and the duration is computed from that
\* timer_started_at.
C7_StopKeepsStart ==
    [][\A id \in InstallationIds :
        (Running(installations[id]) /\ StopAttempt(id))
            => /\ installations'[id].timer_started_at = installations[id].timer_started_at
               /\ installations'[id].timer_started_by = installations[id].timer_started_by
               /\ installations'[id].timer_ended_at = Some(now)
               /\ now >= installations[id].timer_started_at[1]
                    => installations'[id].installation_duration_minutes
                         = Some((now - installations[id].timer_started_at[1]) \div 60)]_vars

\* C7 witness: started by the technician at T0, stopped at T0 + 37 min:
\* duration 37, timer_started_by still technician.
C7_Witness ==
    /\ response.op \in {"stop_installation_timer", "stop_timer_for_app", "tech_stop_timer"}
    /\ response.id = 1
    /\ installations[1].timer_started_by = Some("technician")
    /\ installations[1].timer_ended_at /= None
    /\ installations[1].timer_ended_at[1] = installations[1].timer_started_at[1] + 37 * 60
    /\ installations[1].installation_duration_minutes = Some(37)

\* C8: reading the timer changes no field of the installation; the status
\* it returns has is_running true exactly when timer_started_at is set and
\* timer_ended_at is null, elapsed minutes only when running (the whole
\* minutes since the start), and the stored installation_duration_minutes.
C8_GetTimerIsPureRead ==
    [][\A id \in InstallationIds :
        (\/ GetTimerRoute("get_installation_timer", id)
         \/ GetTimerRoute("get_timer_for_app", id)
         \/ TechGetTimerStatus(id, AssignedTechnician))
            => /\ installations' = installations
               /\ response'.code = 200 =>
                    LET i == installations[id]
                        body == response'.body[1]
                    IN  /\ body.is_running
                            = (i.timer_started_at /= None /\ i.timer_ended_at = None)
                        /\ (body.elapsed_minutes /= None) = body.is_running
                        /\ (body.is_running /\ now >= i.timer_started_at[1])
                            => body.elapsed_minutes
                                 = Some((now - i.timer_started_at[1]) \div 60)
                        /\ body.installation_duration_minutes
                            = i.installation_duration_minutes
                        /\ body.timer_started_at = i.timer_started_at
                        /\ body.timer_ended_at = i.timer_ended_at]_vars

\* C8 witness: a read of a stopped timer returned the stored duration and no
\* elapsed minutes.
C8_Witness ==
    /\ response.op \in {"get_installation_timer", "get_timer_for_app"}
    /\ response.code = 200
    /\ response.body /= None
    /\ ~response.body[1].is_running
    /\ response.body[1].elapsed_minutes = None
    /\ response.body[1].installation_duration_minutes = Some(1)
    /\ installations[1].installation_duration_minutes = Some(1)

(***************************************************************************)
(* Properties of the stock ledger (checked under SpecInventory)            *)
(***************************************************************************)
\* C9: an exit (salida) movement whose quantity exceeds the current stock of
\* the product is answered with 400, leaves the stock unchanged and writes
\* no ledger row.
C9_ExitAboveStockFails ==
    [][\A product_id \in DOMAIN stock, quantity \in Quantities :
        (CreateInventoryMovement(product_id, SALIDA, quantity)
            /\ quantity > stock[product_id])
            => /\ response'.code = 400
               /\ stock' = stock
               /\ ledger' = ledger]_vars

\* C9 witness: an exit was rejected on a product with stock 3; the stock is
\* still 3 and the ledger is empty.
C9_Witness ==
    /\ response.code = 400
    /\ response.detail = "Stock insuficiente"
    /\ stock[1] = 3
    /\ ledger = <<>>

\* C10 (as claimed): for every ledger row, stock_after equals stock_before
\* plus the signed quantity stored in the row.
C10_RowBalances ==
    \A n \in 1..Len(ledger) :
        ledger[n].stock_after = ledger[n].stock_before + ledger[n].quantity

\* C11 (as claimed): through movement operations the stock of a product never
\* becomes negative, and no ledger row records a negative stock_after.
C11_StockNeverNegative ==
    /\ \A p \in DOMAIN stock : stock[p] >= 0
    /\ \A n \in 1..Len(ledger) : ledger[n].stock_after >= 0

\* C12: a step that changes the ledger or a product's stock appends exactly
\* one row, and the stock of the row's product after the step is the row's
\* stock_after (the stock before it is the row's stock_before, and no other
\* product changes); a ledger row never appears without the stock update nor
\* a stock update without its row.
C12_RowAndStockTogether ==
    [][(ledger' /= ledger \/ stock' /= stock)
        => /\ Len(ledger') = Len(ledger) + 1
           /\ SubSeq(ledger', 1, Len(ledger)) = ledger
           /\ LET row == ledger'[Len(ledger')] IN
               /\ row.product_id \in DOMAIN stock
               /\ row.stock_before = stock[row.product_id]
               /\ stock' = [stock EXCEPT ![row.product_id] = row.stock_after]
               /\ response'.code = 200]_vars

\* C12 witness: an entry of 2 units was applied to a product with stock 3; the
\* row records 3 -> 5 and the product's stock is 5.
C12_Witness ==
    /\ Len(ledger) = 1
    /\ ledger[1].movement_type = ENTRADA
    /\ ledger[1].stock_before = 3
    /\ ledger[1].stock_after = 5
    /\ stock[1] = 5
    /\ response.code = 200

\* C13 (as claimed): every step that changes a product's stock appends a
\* ledger row that records the stock before and after the change.
C13_EveryStockChangeHasRow ==
    [][\A p \in DOMAIN stock :
        stock'[p] /= stock[p]
            => /\ Len(ledger') = Len(ledger) + 1
               /\ ledger'[Len(ledger')].product_id = p
               /\ ledger'[Len(ledger')].stock_before = stock[p]
               /\ ledger'[Len(ledger')].stock_after = stock'[p]]_vars

\* C14: the ledger is append-only: every step keeps each row already written,
\* with all its fields and at its place, and the ledger never shrinks.
C14_LedgerAppendOnly ==
    [][/\ Len(ledger') >= Len(ledger)
       /\ SubSeq(ledger', 1, Len(ledger)) = ledger]_vars

\* C14 witness: an exit of 1 unit was recorded (3 -> 2) and, after it, an
\* adjustment; the exit row is still the first row.
C14_Witness ==
    /\ Len(ledger) = 2
    /\ ledger[1].movement_type = SALIDA
    /\ ledger[1].quantity = -1
    /\ ledger[1].stock_before = 3
    /\ ledger[1].stock_after = 2
    /\ ledger[2].movement_type = AJUSTE
    /\ ledger[2].stock_before = 2

(***************************************************************************)
(* Properties of the conversation analysis (checked under SpecAnalyze)     *)
(***************************************************************************)
\* C18: the status given to a lead created from a webhook is a function of
\* the interest level of the analysis and of whether the analysis found a
\* phone: high interest with a phone gives potencial; otherwise medium
\* interest or a phone gives en_conversacion; otherwise nuevo.  A caller for
\* whom the handler fills in the placeholder phone has no known phone.
C18_StatusFromInterestAndPhone ==
    lead_status /= None
        => LET level == analysis[1].interest_level
               phone_known == analysis[1].phone \notin {None, Some(EmptyStr)}
           IN  /\ level \in {"high", "medium", "low"}
               /\ lead_status[1] =
                    CASE level = "high" /\ phone_known -> POTENCIAL
                      [] level = "high" /\ ~phone_known -> NUEVO
                      [] level = "medium" -> EN_CONVERSACION
                      [] level = "low" /\ phone_known -> EN_CONVERSACION
                      [] level = "low" /\ ~phone_known -> NUEVO

\* C18 witness: an unidentified caller (no name, no phone: the handler fills in
\* the placeholder phone) with high interest was classified as nuevo.
C18_Witness ==
    /\ lead_status = Some(NUEVO)
    /\ analysis[1].interest_level = "high"
    /\ analysis[1].phone = None
    /\ analysis[1].name = None
    /\ payload.transcript.kind = "none"

\* C19 (as claimed): when the payload carries no explicit interest level (no
\* analysis object, or one whose interest_level is null), the interest level
\* analyze returns is the number of phrases of HIGH_INTEREST_KEYWORDS that
\* occur in the lower-cased transcript text, each counted once: 3 or more give
\* high, 1 or 2 medium, 0 low.
C19_InterestIsKeywordThreshold ==
    (/\ analysis /= None
     /\ analysis[1].error = ""
     /\ \/ payload.analysis = None
        \/ payload.analysis[1].interest_level = None)
        => LET text == str_lower(format_transcript(payload.transcript))
               hits == Cardinality({n \in DOMAIN HIGH_INTEREST_KEYWORDS :
                                        PhraseIn(HIGH_INTEREST_KEYWORDS[n], text)})
           IN  analysis[1].interest_level =
                    CASE hits >= 3 -> "high"
                      [] hits \in {1, 2} -> "medium"
                      [] hits = 0 -> "low"

\* C20: when analyze returns, each of name, phone, email, address and product
\* interest is the first non-empty value in the order: the field of the
\* analysis object, the collected-data field (under its customer_/long key,
\* then its short key), the top-level payload field, the value extracted from
\* the transcript text (name, phone and product only); it is empty when no
\* source has a non-empty value.
C20_FieldPrecedence ==
    (analysis /= None /\ analysis[1].error = "")
        => LET p == payload
               r == analysis[1]
               NonEmpty(v) == v /= None /\ v /= Some(EmptyStr)
               text == format_transcript(p.transcript)
               OfAnalysis(f) == IF p.analysis = None THEN None ELSE p.analysis[1][f]
               dict == IF p.collected_data /= None /\ DOMAIN p.collected_data[1] /= {}
                       THEN p.collected_data[1]
                       ELSE IF p.data_collection /= None THEN p.data_collection[1]
                       ELSE <<>>
               OfCollected(k) == IF k \in DOMAIN dict THEN dict[k] ELSE None
               OfPayload(k) == IF k \in p.keys THEN p[k] ELSE None
               OfText(v) == IF text = EmptyStr THEN None ELSE v
               IsFirst(value, sources) ==
                    LET Supplied == {n \in DOMAIN sources : NonEmpty(sources[n])} IN
                    IF Supplied = {} THEN ~NonEmpty(value)
                    ELSE value = sources[CHOOSE n \in Supplied : \A m \in Supplied : n <= m]
           IN  /\ IsFirst(r.name,
                    <<OfAnalysis("customer_name"), OfCollected("customer_name"),
                      OfCollected("name"), OfPayload("customer_name"),
                      OfText(extract_name_from_text(text))>>)
               /\ IsFirst(r.phone,
                    <<OfAnalysis("customer_phone"), OfCollected("customer_phone"),
                      OfCollected("phone"), OfPayload("customer_phone"),
                      OfText(extract_phone_from_text(text))>>)
               /\ IsFirst(r.email,
                    <<OfAnalysis("customer_email"), OfCollected("customer_email"),
                      OfCollected("email"), OfPayload("customer_email")>>)
               /\ IsFirst(r.address,
                    <<OfAnalysis("customer_address"), OfCollected("customer_address"),
                      OfCollected("address"), OfPayload("customer_address")>>)
               /\ IsFirst(r.product_interest,
                    <<OfAnalysis("product_interest"), OfCollected("product_interest"),
                      OfCollected("product"), OfPayload("product_interest"),
                      OfText(detect_product_interest(text))>>)

\* C20 witness: the collected data and the top level both supply a name and
\* the transcript says "mi nombre es Juan" and a mobile number; analyze
\* returned the collected name and the phone extracted from the transcript.
C20_Witness ==
    /\ analysis /= None
    /\ analysis[1].error = ""
    /\ payload.transcript = Transcript("str", ScenarioText)
    /\ payload.customer_name = SourceValue("payload", "name")
    /\ analysis[1].name = SourceValue("collected", "customer_name")
    /\ analysis[1].phone = Some(<<"+573001234567">>)

(***************************************************************************)
(* Properties of the webhook (checked under SpecWebhook and SpecLeads)     *)
(***************************************************************************)
\* C15: in a sequence of webhook deliveries, at most one lead is ever created
\* for a conversation id, and a delivery of a conversation id that was
\* answered before does not add a row to the leads table.
C15_RedeliveryCreatesNoLead ==
    /\ [](\A c \in ConversationIds \ {None} : processed[c].created <= 1)
    /\ [][\A c \in ConversationIds \ {None} :
            (processed[c].delivered > 0 /\ processed'[c].delivered > processed[c].delivered)
                => Len(leads') = Len(leads)]_vars

\* C15 witness: conv_003a created lead 2, conv_003b (same phone) took the lead
\* over, and conv_003a was delivered again: the lookup by conversation id did
\* not find it, and still there are two leads and one was created for it.
C15_Witness ==
    /\ processed[Some(<<"conv_003", "a">>)] = [delivered |-> 2, created |-> 1]
    /\ processed[Some(<<"conv_003", "b">>)] = [delivered |-> 1, created |-> 0]
    /\ Len(leads) = 2
    /\ leads[2].elevenlabs_conversation_id = Some(<<"conv_003", "a">>)
    /\ leads[2].source = ANA_VOICE

\* C16 (as claimed): a delivery of a conversation id that was answered before
\* leaves the leads table as it was (every row, with its status, notes,
\* product interest, transcript and stored conversation id).
C16_RedeliveryChangesNothing ==
    [][\A c \in ConversationIds \ {None} :
        (processed[c].delivered > 0 /\ processed'[c].delivered > processed[c].delivered)
            => leads' = leads]_vars

\* C17 (as claimed): no two rows of the leads table have the same phone.
C17_PhoneIsUnique ==
    \A i, j \in DOMAIN leads : i /= j => leads[i].phone /= leads[j].phone

(***************************************************************************)
(* api/routes/installations.py (delete_installation) and                   *)
(* api/routes/tech_app.py (confirm_payment)                                *)
(***************************************************************************)
\* DELETE /installations/{installation_id}: crud.installation.remove deletes
\* the row (no row of technician_locations references the seeded one)
DeleteInstallation(id) ==
    /\ IF ~Found(id) THEN Raise(id, 404, "Installation not found")
       ELSE /\ installations' =
                    [i \in DOMAIN installations \ {id} |-> installations[i]]
            /\ response' = Reply("delete_installation", id, 200, None)
    /\ Frame

\* TechPaymentConfirmRequest.amount is a plain float: amounts are whole
\* currency units here, on which float addition is exact
PaymentAmounts == {-4, 0, 4, 6, 10}

\* POST /tech/installations/{installation_id}/confirm-payment
ConfirmPayment(id, technician_id, amount, method) ==
    LET op == "confirm_payment" IN
    /\ IF TechGuard(id, technician_id) /= None
       THEN TechRaise(id, technician_id)
       ELSE LET installation == installations[id]
                \* float(installation.amount_paid or 0) + request.amount
                amount_paid == installation.amount_paid + amount
                paid == [installation EXCEPT
                    !.amount_paid = amount_paid,
                    \* PaymentMethod(request.method), ValueError is passed over
                    !.payment_method = IF method \in PaymentMethod THEN Some(method) ELSE @,
                    !.payment_status =
                        IF amount_paid >= installation.total_price THEN PaymentStatus.PAGADO
                        ELSE IF amount_paid > 0 THEN PaymentStatus.PARCIAL
                        ELSE @]
            IN  /\ amount_paid \in -MaxPaid..MaxPaid
                /\ Commit(id, paid)
                /\ response' = Reply(op, id, 200,
                        Some([amount_paid |-> paid.amount_paid,
                              total_price |-> paid.total_price,
                              payment_status |-> paid.payment_status]))
    /\ Frame

(***************************************************************************)
(* api/routes/warehouses.py: update_product_stock_by_warehouse             *)
(***************************************************************************)
\* List[ProductWarehouseStock]: warehouse 4 does not exist
WarehouseStockLists ==
    LET Item == [warehouse_id : WarehouseIds \cup {4}, quantity : {0, 2}]
    IN  {<<>>} \cup {<<a>> : a \in Item} \cup {<<a, b>> : a \in Item, b \in Item}

\* PUT /warehouses/stock/{product_id}: every item is upserted into
\* warehouse_stock, products.stock is set to the sum of the quantities in
\* the list, and all is committed at the end.  An item that names a missing
\* warehouse or product violates the foreign key: nothing is committed and
\* the request is answered 500.
UpdateProductStockByWarehouse(product_id, stocks) ==
    LET RECURSIVE Upsert(_, _)
        Upsert(table, items) ==
            IF items = <<>> THEN table
            ELSE Upsert([w \in DOMAIN table \cup {Head(items).warehouse_id} |->
                            IF w = Head(items).warehouse_id THEN Head(items).quantity
                            ELSE table[w]],
                        Tail(items))
        RECURSIVE Total(_)
        Total(items) ==
            IF items = <<>> THEN 0 ELSE Head(items).quantity + Total(Tail(items))
        ForeignKeysHold ==
            \A i \in DOMAIN stocks :
                stocks[i].warehouse_id \in WarehouseIds /\ product_id \in DOMAIN stock
    IN  /\ IF ~ForeignKeysHold
           THEN /\ response' = [InternalServerError(product_id) EXCEPT
                                    !.detail = "IntegrityError"]
                /\ UNCHANGED <<stock, warehouse_stock>>
           ELSE /\ warehouse_stock' = Upsert(warehouse_stock, stocks)
                /\ stock' = IF product_id \in DOMAIN stock
                            THEN [stock EXCEPT ![product_id] = Total(stocks)]
                            ELSE stock
                /\ response' = Reply("update_product_stock_by_warehouse", product_id,
                                     200, Some(Total(stocks)))
        /\ UNCHANGED <<now, ticks, installations, ledger, sales, leadTables,
                       analyzerState, sessions>>

\* the handlers that write the payment columns or delete the row
NextPayments ==
    \/ \E id \in RequestIds, technician_id \in TechnicianIds,
          amount \in PaymentAmounts, method \in {"nequi", "cheque"} :
            ConfirmPayment(id, technician_id, amount, method)
    \/ \E id \in RequestIds : DeleteInstallation(id)
    \/ \E product_id \in ProductRequestIds, stocks \in WarehouseStockLists :
            UpdateProductStockByWarehouse(product_id, stocks)

SpecPayments == Init /\ [][NextPayments]_vars

\* C21 (as claimed): an installation that exists still exists after every
\* operation; no handler removes a row of the installations table.
C21_NeverHardDeleted ==
    [][DOMAIN installations \subseteq DOMAIN installations']_vars

\* C28 (as claimed): after every confirm_payment the row's amount_paid is the
\* previous amount_paid plus the confirmed amount, and payment_status is
\* pagado exactly when amount_paid >= total_price, parcial exactly when
\* 0 < amount_paid < total_price, pendiente exactly when amount_paid <= 0.
C28_PaymentStatusAgrees ==
    [][\A id \in InstallationIds, t \in TechnicianIds,
         amount \in PaymentAmounts, method \in {"nequi", "cheque"} :
        (TechGuard(id, t) = None /\ ConfirmPayment(id, t, amount, method)) =>
            LET row == installations'[id] IN
            /\ row.amount_paid = installations[id].amount_paid + amount
            /\ (row.payment_status = PaymentStatus.PAGADO) <=> (row.amount_paid >= row.total_price)
            /\ (row.payment_status = PaymentStatus.PARCIAL) <=>
                    (0 < row.amount_paid /\ row.amount_paid < row.total_price)
            /\ (row.payment_status = PaymentStatus.PENDIENTE) <=> (row.amount_paid <= 0)]_vars

\* C30 (as claimed): after update_product_stock_by_warehouse the product's
\* stock in the products table is the sum of the product's quantities over
\* all rows of warehouse_stock.
C30_StockIsSumOfWarehouses ==
    LET RECURSIVE Sum(_)
        Sum(ws) == IF ws = {} THEN 0
                   ELSE LET w == CHOOSE w \in ws : TRUE
                        IN  warehouse_stock[w] + Sum(ws \ {w})
    IN  (response.op = "update_product_stock_by_warehouse" /\ response.code = 200)
            => (response.id \in DOMAIN stock => stock[response.id] = Sum(DOMAIN warehouse_stock))

\* C22 (as claimed): a create_installation request commits all of its effects
\* (installation row, stock decrement, lead status agendado) or none of them.
C22_CreateInstallationAtomic ==
    [][\A lead_id \in {1, 2}, product_id \in ProductRequestIds, quantity \in OrderQuantities :
        CreateInstallation(lead_id, product_id, quantity) =>
            \/ /\ installations' = installations
               /\ stock' = stock
               /\ leads' = leads
            \/ /\ DOMAIN installations' /= DOMAIN installations
               /\ stock'[product_id] = stock[product_id] - quantity
               /\ leads'[lead_id].status = "agendado"]_vars

\* C24: for an existing lead and product, create_installation with
\* stock < quantity is answered 400 "Insufficient stock", creates no
\* installation and leaves the stock as it was; otherwise the installation
\* row is created and the stock decreases by exactly the quantity.
C24_StockCheckedThenDecremented ==
    [][\A lead_id \in DOMAIN leads, product_id \in DOMAIN stock, quantity \in OrderQuantities :
        CreateInstallation(lead_id, product_id, quantity) =>
            IF stock[product_id] < quantity
            THEN /\ response' = HTTPException(product_id, 400, "Insufficient stock")
                 /\ installations' = installations
                 /\ stock' = stock
            ELSE /\ Cardinality(DOMAIN installations') = Cardinality(DOMAIN installations) + 1
                 /\ stock'[product_id] = stock[product_id] - quantity]_vars

\* an installation for two units was created and the stock is two lower
C24_Witness ==
    \E id \in DOMAIN installations :
        /\ id \notin InstallationIds
        /\ installations[id].quantity = 2
        /\ stock[1] = 1
        /\ response = InternalServerError(id)

(***************************************************************************)
(* api/routes/distributors.py: update_sale and delete_sale.  A sale is     *)
(* addressed by its position among the existing rows.                      *)
(***************************************************************************)
\* PUT /distributors/sales/{sale_id}: the columns named in the body are
\* assigned (model_dump(exclude_unset=True)); Product.stock is not touched
UpdateSale(sale_id, quantity) ==
    /\ IF sale_id \notin DOMAIN sales
       THEN /\ response' = HTTPException(sale_id, 404, "Sale not found")
            /\ UNCHANGED sales
       ELSE LET sale == [sales[sale_id] EXCEPT
                            !.quantity = IF quantity /= None THEN quantity[1] ELSE @]
            IN  /\ sales' = [sales EXCEPT ![sale_id] = sale]
                /\ response' = Reply("update_sale", sale_id, 200, Some(sale))
    /\ UNCHANGED <<stock, ledger, installations>>
    /\ StockFrame

\* DELETE /distributors/sales/{sale_id}: the stock of the sale's product is
\* restored and the row is deleted in one commit
DeleteSale(sale_id) ==
    /\ sale_id \in DOMAIN sales =>
            stock[sales[sale_id].product_id] + sales[sale_id].quantity \in -MaxStock..MaxStock
    /\ IF sale_id \notin DOMAIN sales
       THEN /\ response' = HTTPException(sale_id, 404, "Sale not found")
            /\ UNCHANGED <<stock, sales>>
       ELSE LET sale == sales[sale_id] IN
            /\ stock' = IF sale.product_id \in DOMAIN stock
                        THEN [stock EXCEPT ![sale.product_id] = @ + sale.quantity]
                        ELSE stock
            /\ sales' = [i \in 1..(Len(sales) - 1) |->
                            IF i < sale_id THEN sales[i] ELSE sales[i + 1]]
            /\ response' = Reply("delete_sale", sale_id, 204, None)
    /\ UNCHANGED <<ledger, installations>>
    /\ StockFrame

\* the handlers of the distributor sales
NextSales ==
    \/ create_sale
    \/ \E sale_id \in {1, 2}, quantity \in {None} \cup {Some(q) : q \in OrderQuantities} :
            UpdateSale(sale_id, quantity)
    \/ \E sale_id \in {1, 2} : DeleteSale(sale_id)

SpecSales == Init /\ [][NextSales]_vars

\* the handlers of the orders that take units out of the stock: installations
\* and distributor sales
NextOrders ==
    \/ create_installation
    \/ create_sale
    \/ \E sale_id \in {1, 2}, quantity \in {None} \cup {Some(q) : q \in OrderQuantities} :
            UpdateSale(sale_id, quantity)
    \/ \E sale_id \in {1, 2} : DeleteSale(sale_id)

SpecOrders == Init /\ [][NextOrders]_vars

\* C25 (as claimed): create_sale, update_sale and delete_sale keep product
\* stock plus the total quantity of the product's existing sales constant
\* (equal to the initial stock), and a create_sale answered 400 "Not enough
\* stock" records no sale and changes no stock.
C25_StockPlusSalesConstant ==
    LET RECURSIVE Sold(_, _)
        Sold(rows, p) ==
            IF rows = <<>> THEN 0
            ELSE (IF Head(rows).product_id = p THEN Head(rows).quantity ELSE 0)
                    + Sold(Tail(rows), p)
    IN  \A p \in DOMAIN stock : stock[p] + Sold(sales, p) = 3

\* C26: when the assigned technician completes an installation whose timer
\* is running, the timer is stopped first: afterwards the status is
\* completada, timer_ended_at is the time of the call,
\* installation_duration_minutes is the whole minutes since the start, and
\* the timer is not running.
C26_CompleteStopsRunningTimer ==
    [][\A id \in InstallationIds, technician_id \in TechnicianIds :
        (/\ TechGuard(id, technician_id) = None
         /\ Running(installations[id])
         /\ TechCompleteInstallation(id, technician_id)) =>
            LET row == installations'[id] IN
            /\ row.status = COMPLETADA
            /\ row.timer_ended_at = Some(now)
            /\ row.installation_duration_minutes =
                    Some(IntMinutes(now - installations[id].timer_started_at[1]))
            /\ ~Running(row)]_vars

\* the technician completed an installation at the instant its timer ended,
\* some minutes after it was started
C26_Witness ==
    /\ response = Reply("tech_complete_installation", 1, 200, None)
    /\ installations[1].status = COMPLETADA
    /\ installations[1].timer_started_at /= None
    /\ installations[1].timer_ended_at = installations[1].completed_at
    /\ installations[1].installation_duration_minutes /= None
    /\ installations[1].installation_duration_minutes[1] > 0

(***************************************************************************)
(* Requests served at the same time.  The sync endpoints run in the        *)
(* threads of the server's pool, each with the session get_db opened for   *)
(* it: a handler reads, and its commit is a later step.  sessions[w] is    *)
(* the last request of worker w, with pc "done" once it was answered.      *)
(***************************************************************************)
\* POST /installations/{installation_id}/timer/stop, up to the call of
\* crud.installation.stop_timer: the row is loaded and checked
StopTimerRead(w, id) ==
    /\ IF sessions[w] = None THEN TRUE ELSE sessions[w][1].pc = "done"
    /\ IF ~Found(id) THEN Raise(id, 404, "Installation not found") /\ UNCHANGED sessions
       ELSE IF installations[id].timer_started_at = None
            THEN Raise(id, 400, "Timer has not been started") /\ UNCHANGED sessions
       ELSE IF installations[id].timer_ended_at /= None
            THEN Raise(id, 400, "Timer has already been stopped") /\ UNCHANGED sessions
       ELSE /\ sessions' = [sessions EXCEPT ![w] =
                    Some([op |-> "stop_installation_timer", pc |-> "stop_timer",
                          id |-> id, db_obj |-> installations[id],
                          replaced |-> None])]
            /\ UNCHANGED <<installations, response>>
    /\ UNCHANGED <<now, ticks, stock, ledger, sales, leadTables, analyzerState,
                   warehouse_stock>>

\* variant of the second step that writes only while the row is still running
\* (UPDATE ... WHERE timer_ended_at IS NULL)
StopTimerWrite_OnlyIfRunning(w) ==
    /\ sessions[w] /= None
    /\ sessions[w][1].pc = "stop_timer"
    /\ LET s == sessions[w][1]
           installation == CRUDInstallation_stop_timer(s.db_obj)
       IN  /\ installations' =
                IF installations[s.id].timer_ended_at = None
                THEN [installations EXCEPT ![s.id] = [@ EXCEPT
                        !.timer_ended_at = installation.timer_ended_at,
                        !.installation_duration_minutes =
                            installation.installation_duration_minutes]]
                ELSE installations
           /\ response' = Reply(s.op, s.id, 200,
                    Some(CRUDInstallation_get_timer_status(s.id, installations'[s.id])))
           /\ sessions' = [sessions EXCEPT ![w] =
                    Some([s EXCEPT !.pc = "done", !.db_obj = installation,
                                   !.replaced = installations[s.id].timer_ended_at])]
    /\ UNCHANGED <<now, ticks, stock, ledger, sales, leadTables, analyzerState,
                   warehouse_stock>>

\* crud.installation.stop_timer on the object the session loaded, and the
\* answer: the object is running (it passed the checks), so timer_ended_at and
\* installation_duration_minutes are assigned and the UPDATE of the two
\* columns is committed, whatever the row holds by now; db.refresh reloads it
StopTimerWrite(w) ==
    /\ sessions[w] /= None
    /\ sessions[w][1].pc = "stop_timer"
    /\ LET s == sessions[w][1]
           installation == CRUDInstallation_stop_timer(s.db_obj)
       IN  /\ installations' = [installations EXCEPT ![s.id] = [@ EXCEPT
                    !.timer_ended_at = installation.timer_ended_at,
                    !.installation_duration_minutes =
                        installation.installation_duration_minutes]]
           /\ response' = Reply(s.op, s.id, 200,
                    Some(CRUDInstallation_get_timer_status(s.id, installations'[s.id])))
           \* replaced: history, the timer_ended_at the UPDATE overwrote
           /\ sessions' = [sessions EXCEPT ![w] =
                    Some([s EXCEPT !.pc = "done", !.db_obj = installation,
                                   !.replaced = installations[s.id].timer_ended_at])]
    /\ UNCHANGED <<now, ticks, stock, ledger, sales, leadTables, analyzerState,
                   warehouse_stock>>

\* the clock, the start of the timer and two workers that stop it
NextTimerRace ==
    \/ Tick
    \/ start_installation_timer
    \/ \E w \in Workers, id \in RequestIds : StopTimerRead(w, id)
    \/ \E w \in Workers : StopTimerWrite(w)

SpecTimerRace == Init /\ [][NextTimerRace]_vars

\* C23: a stop request that passed the running check always succeeds and
\* writes its own stop time and duration, also when the row was stopped by
\* another request in the meantime: the later write replaces the
\* timer_ended_at and installation_duration_minutes of the earlier one.
C23_LaterStopOverwrites ==
    [][\A w \in Workers :
        StopTimerWrite(w) =>
            LET s == sessions[w][1] IN
            /\ response'.code = 200
            /\ installations'[s.id].timer_ended_at = Some(now)
            /\ installations'[s.id].installation_duration_minutes =
                    Some(IntMinutes(now - s.db_obj.timer_started_at[1]))]_vars

\* two stop requests of the same running timer both passed the check and both
\* were answered; the second replaced the stop time and the duration that the
\* first had recorded
C23_Witness ==
    \E w1, w2 \in Workers :
        /\ w1 /= w2
        /\ sessions[w1] /= None /\ sessions[w2] /= None
        /\ LET s1 == sessions[w1][1]
               s2 == sessions[w2][1]
           IN  /\ s1.pc = "done" /\ s2.pc = "done"
               /\ s1.id = s2.id
               /\ s1.db_obj.timer_started_at = s2.db_obj.timer_started_at
               /\ s1.replaced = None
               /\ s2.replaced = s1.db_obj.timer_ended_at
               /\ s2.replaced /= s2.db_obj.timer_ended_at
               /\ s1.db_obj.installation_duration_minutes
                    /= s2.db_obj.installation_duration_minutes
               /\ installations[s2.id].timer_ended_at = s2.db_obj.timer_ended_at
               /\ installations[s2.id].installation_duration_minutes
                    = s2.db_obj.installation_duration_minutes
               /\ response.code = 200

\* POST /installations/, up to the first commit: lead and product are loaded,
\* the stock is checked and crud.installation.create commits the row
CreateInstallationCreate(w, lead_id, product_id, quantity) ==
    /\ IF sessions[w] = None THEN TRUE ELSE sessions[w][1].pc = "done"
    /\ Cardinality(DOMAIN installations \ InstallationIds) < MaxInstallations
    /\ LET id == Cardinality(DOMAIN installations) + 1 IN
        IF lead_id \notin DOMAIN leads
        THEN /\ response' = HTTPException(lead_id, 400, "Lead not found")
             /\ UNCHANGED <<installations, sessions>>
        ELSE IF product_id \notin DOMAIN stock
        THEN /\ response' = HTTPException(product_id, 400, "Product not found")
             /\ UNCHANGED <<installations, sessions>>
        ELSE IF stock[product_id] < quantity
        THEN /\ response' = HTTPException(product_id, 400, "Insufficient stock")
             /\ UNCHANGED <<installations, sessions>>
        ELSE /\ installations' = installations @@
                    (id :> [Installation(None) EXCEPT !.quantity = quantity])
             /\ sessions' = [sessions EXCEPT ![w] =
                    Some([op |-> "create_installation", pc |-> "update_stock",
                          id |-> id, product_id |-> product_id,
                          quantity |-> quantity, db_obj |-> stock[product_id]])]
             /\ UNCHANGED response
    /\ UNCHANGED <<now, ticks, stock, ledger, sales, leadTables, analyzerState,
                   warehouse_stock>>

\* crud.product.update_stock(db, db_obj=product, quantity=...,
\* operation="subtract") and the rest of the handler.  db_obj.stock is the
\* value the session loaded before the check, or the value of the row now
\* when the first commit expired the object (the sessionmaker's
\* expire_on_commit decides, and app/core/database.py is not part of the
\* sources); the assignment is committed, then LeadStatus.AGENDADO raises.
CreateInstallationUpdateStock(w) ==
    /\ sessions[w] /= None
    /\ sessions[w][1].pc = "update_stock"
    /\ LET s == sessions[w][1] IN
        \E db_obj_stock \in {s.db_obj, stock[s.product_id]} :
            /\ stock' = [stock EXCEPT ![s.product_id] =
                    CRUDProduct_update_stock(db_obj_stock, s.quantity, "subtract")]
            /\ response' = InternalServerError(s.id)
            /\ sessions' = [sessions EXCEPT ![w] = Some([s EXCEPT !.pc = "done"])]
    /\ UNCHANGED <<now, ticks, installations, ledger, sales, leadTables, analyzerState,
                   warehouse_stock>>

\* two workers that create installations
NextStockRace ==
    \/ \E w \in Workers, lead_id \in {1, 2}, product_id \in ProductRequestIds,
          quantity \in OrderQuantities :
            CreateInstallationCreate(w, lead_id, product_id, quantity)
    \/ \E w \in Workers : CreateInstallationUpdateStock(w)

SpecStockRace == Init /\ [][NextStockRace]_vars

\* C29 (as claimed): once the create_installation requests have been
\* answered, the total quantity of the installations they created is at most
\* the stock that was available before them, and the stock is lower by
\* exactly that total.
C29_NoOversell ==
    LET Created == DOMAIN installations \ InstallationIds
        RECURSIVE Total(_)
        Total(ids) == IF ids = {} THEN 0
                      ELSE LET id == CHOOSE id \in ids : TRUE
                           IN  installations[id].quantity + Total(ids \ {id})
        AllAnswered == \A w \in Workers :
                        IF sessions[w] = None THEN TRUE ELSE sessions[w][1].pc = "done"
    IN  AllAnswered => /\ Total(Created) <= 3
                     /\ stock[1] = 3 - Total(Created)

\* POST /webhooks/elevenlabs/conversation, the lookup by conversation id.  The
\* handler is a coroutine with no await between the lookup and the commit, so
\* two deliveries interleave only when two server processes serve them
\* (uvicorn.run starts WEB_CONCURRENCY worker processes); nothing in the
\* leads table keeps the second insert out.
WebhookLookup(w, p) ==
    /\ IF sessions[w] = None THEN TRUE ELSE sessions[w][1].pc = "done"
    /\ Deliveries(processed) < MaxDeliveries
    /\ LET existing == get_by_elevenlabs_conversation(leads, p.conversation_id) IN
       IF existing /= {}
       THEN \E id \in existing :
                /\ response' = Reply("elevenlabs_conversation_webhook", id, 200,
                                     Some(leads[id]))
                /\ leads' = leads
                /\ Answered(p.conversation_id, 0)
                /\ UNCHANGED sessions
       ELSE /\ sessions' = [sessions EXCEPT ![w] =
                    Some([op |-> "elevenlabs_conversation_webhook", pc |-> "store",
                          payload |-> p])]
            /\ UNCHANGED <<response, leadTables>>
    /\ UNCHANGED <<now, ticks, installations, stock, ledger, sales, analyzerState,
                   warehouse_stock>>

\* the rest of the handler, in the process that found no lead
WebhookStore(w) ==
    /\ sessions[w] /= None
    /\ sessions[w][1].pc = "store"
    /\ StoreConversation(sessions[w][1].payload)
    /\ sessions' = [sessions EXCEPT ![w] = Some([sessions[w][1] EXCEPT !.pc = "done"])]
    /\ UNCHANGED <<now, ticks, installations, stock, ledger, sales, analyzerState,
                   warehouse_stock>>

\* two server processes that receive the deliveries
NextWebhookRace ==
    \/ \E w \in Workers, p \in WebhookEvents : WebhookLookup(w, p)
    \/ \E w \in Workers : WebhookStore(w)

SpecWebhookRace == Init /\ [][NextWebhookRace]_vars

\* C27 (as claimed): deliveries of the same conversation id that are
\* processed at the same time leave at most one lead created for that
\* conversation id.
C27_ConcurrentDeliveriesOneLead ==
    \A c \in ConversationIds \ {None} :
        /\ processed[c].created <= 1
        /\ Cardinality({id \in DOMAIN leads : leads[id].elevenlabs_conversation_id = c}) <= 1

====
